---- MODULE Spec2Model ----
(***************************************************************************)
(* Metaflyer: ruleset evaluation, auto-population and the metadata         *)
(* enforcer's evaluate / write-back cycle for one markdown document.       *)
(*                                                                         *)
(* JavaScript values are records of one shape, tagged by typeof; strings   *)
(* are sequences of one-character strings so that trim(), includes(),      *)
(* replace() and Number() are computed and not assumed.                    *)
(***************************************************************************)
EXTENDS Integers, Sequences, FiniteSets, TLC

VARIABLES settings, enableWarnings, frontmatter, pending, evaluation, alert,
          writes, populatedFor, call, ret, notePath, folders, files, vaultLog,
          outcome

vars == <<settings, enableWarnings, frontmatter, pending, evaluation, alert,
          writes, populatedFor, call, ret, notePath, folders, files, vaultLog,
          outcome>>

\* the arguments and the result of one call of a function of the core
callVars == <<call, ret>>

\* the vault and the note the organizer works on
vaultVars == <<notePath, folders, files, vaultLog, outcome>>

(***************************************************************************)
(* Bounds of the model.                                                    *)
(***************************************************************************)
MaxRulesets == 2

MaxWrites == 3

\* calls of organizeNote on the note
MaxOrganizes == 2

\* numbered variants of the desired file name that exist in the vault
MaxVariants == 2

(***************************************************************************)
(* Strings.                                                                *)
(***************************************************************************)
WhiteSpace == {" ", "\t", "\n"}

Digits == {"0", "1", "2", "3", "4", "5", "6", "7", "8", "9"}

RECURSIVE TrimStart(_)
TrimStart(s) ==
    IF s = <<>> THEN s
    ELSE IF Head(s) \in WhiteSpace THEN TrimStart(Tail(s)) ELSE s

RECURSIVE TrimEnd(_)
TrimEnd(s) ==
    IF s = <<>> THEN s
    ELSE IF s[Len(s)] \in WhiteSpace THEN TrimEnd(SubSeq(s, 1, Len(s) - 1)) ELSE s

Trim(s) == TrimEnd(TrimStart(s))

Includes(s, c) == \E i \in 1..Len(s) : s[i] = c

IndexOf(s, pat) ==
    LET hits == {i \in 1..(Len(s) - Len(pat) + 1) : SubSeq(s, i, i + Len(pat) - 1) = pat}
    IN  IF hits = {} THEN 0 ELSE CHOOSE i \in hits : \A j \in hits : i <= j

ReplaceFirst(s, pat, rep) ==
    LET i == IndexOf(s, pat)
    IN  IF i = 0 THEN s
        ELSE SubSeq(s, 1, i - 1) \o rep \o SubSeq(s, i + Len(pat), Len(s))

DigitChar(d) == <<"0", "1", "2", "3", "4", "5", "6", "7", "8", "9">>[d + 1]

DigitValue(c) == CHOOSE d \in 0..9 : DigitChar(d) = c

RECURSIVE NatToString(_)
NatToString(n) ==
    IF n < 10 THEN <<DigitChar(n)>>
    ELSE NatToString(n \div 10) \o <<DigitChar(n % 10)>>

RECURSIVE PadStart(_, _, _)
PadStart(s, width, c) == IF Len(s) >= width THEN s ELSE PadStart(<<c>> \o s, width, c)

RECURSIVE StringToNat(_)
StringToNat(s) ==
    IF s = <<>> THEN 0
    ELSE 10 * StringToNat(SubSeq(s, 1, Len(s) - 1)) + DigitValue(s[Len(s)])

IsDigits(s) == s # <<>> /\ \A i \in 1..Len(s) : s[i] \in Digits

SInfinity == <<"I", "n", "f", "i", "n", "i", "t", "y">>

StripSign(s) == IF s # <<>> /\ Head(s) \in {"+", "-"} THEN Tail(s) ELSE s

\* isNaN(Number(s)) for a string of spaces, digits, letters, '+' and '-':
\* Number() trims, reads the empty string as 0, a signed digit string as its
\* value and a signed "Infinity" as an infinite number.
NumberIsNaN(s) ==
    LET t == Trim(s)
    IN  t # <<>> /\ ~IsDigits(StripSign(t)) /\ StripSign(t) # SInfinity

(***************************************************************************)
(* String literals.                                                        *)
(***************************************************************************)
STRUE == <<"t", "r", "u", "e">>

SFALSE == <<"f", "a", "l", "s", "e">>

SNULL == <<"n", "u", "l", "l">>

SUNDEFINED == <<"u", "n", "d", "e", "f", "i", "n", "e", "d">>

(***************************************************************************)
(* Values.                                                                 *)
(***************************************************************************)
Undefined == [t |-> "undefined", s |-> <<>>, n |-> 0, b |-> FALSE, l |-> <<>>]

Null == [t |-> "null", s |-> <<>>, n |-> 0, b |-> FALSE, l |-> <<>>]

Str(chars) == [t |-> "string", s |-> chars, n |-> 0, b |-> FALSE, l |-> <<>>]

Num(k) == [t |-> "number", s |-> <<>>, n |-> k, b |-> FALSE, l |-> <<>>]

Bool(v) == [t |-> "boolean", s |-> <<>>, n |-> 0, b |-> v, l |-> <<>>]

Arr(items) == [t |-> "array", s |-> <<>>, n |-> 0, b |-> FALSE, l |-> items]

IsNullish(v) == v.t \in {"undefined", "null"}

\* a === b.  An array of the settings and an array of the parsed frontmatter
\* are different objects, so two arrays are never identical.
StrictEquals(a, b) == a.t # "array" /\ b.t # "array" /\ a = b

BlankItem(item) == IsNullish(item) \/ (item.t = "string" /\ Trim(item.s) = <<>>)

EveryItemBlank(v) == \A i \in 1..Len(v.l) : BlankItem(v.l[i])

(***************************************************************************)
(* RulesetManager (core/ruleset-manager.ts).                               *)
(* A frontmatter is [kind, map]: kind is "undefined" when the document has *)
(* no frontmatter, "null" when its YAML is invalid, "object" otherwise;    *)
(* map gives every key its value, Undefined for a key the object does not  *)
(* own.  metadata_match is the sequence of the object's entries in         *)
(* insertion order.                                                        *)
(***************************************************************************)
Keys == {"type", "attendees", "date"}

NoRuleset == 0

\* an emptiness check that takes a list with one blank item for empty
isFieldEmptyAnyBlank(value, type) ==
    IF IsNullish(value) THEN TRUE
    ELSE CASE type = "string" -> value.t # "string" \/ Trim(value.s) = <<>>
           [] type = "array" ->
                IF value.t # "array" \/ Len(value.l) = 0 THEN TRUE
                ELSE \E i \in 1..Len(value.l) : BlankItem(value.l[i])
           [] type = "date" -> value.t # "string" \/ Trim(value.s) = <<>>
           [] type = "number" ->
                value.t # "number" /\ (value.t # "string" \/ NumberIsNaN(value.s))
           [] type = "boolean" -> value.t # "boolean"
           [] OTHER -> FALSE

isFieldEmpty(value, type) ==
    IF IsNullish(value) THEN TRUE
    ELSE CASE type = "string" -> value.t # "string" \/ Trim(value.s) = <<>>
           [] type = "array" ->
                IF value.t # "array" \/ Len(value.l) = 0 THEN TRUE
                ELSE EveryItemBlank(value)
           [] type = "date" -> value.t # "string" \/ Trim(value.s) = <<>>
           [] type = "number" ->
                value.t # "number" /\ (value.t # "string" \/ NumberIsNaN(value.s))
           [] type = "boolean" -> value.t # "boolean"
           [] OTHER -> FALSE

matchesMetadataConditions(map, conditions) ==
    \A i \in 1..Len(conditions) :
        StrictEquals(map[conditions[i].key], conditions[i].value)

\* a scan that keeps the last matching ruleset
findMatchingRulesetLast(map, rulesets) ==
    LET RECURSIVE scan(_)
        scan(i) ==
            IF i < 1 THEN NoRuleset
            ELSE IF matchesMetadataConditions(map, rulesets[i].metadata_match) THEN i
            ELSE scan(i - 1)
    IN  scan(Len(rulesets))

findMatchingRuleset(map, rulesets) ==
    LET RECURSIVE scan(_)
        scan(i) ==
            IF i > Len(rulesets) THEN NoRuleset
            ELSE IF matchesMetadataConditions(map, rulesets[i].metadata_match) THEN i
            ELSE scan(i + 1)
    IN  scan(1)

\* a collection that forgets the required flag
getMissingFieldsAll(map, ruleset) ==
    LET RECURSIVE collect(_)
        collect(i) ==
            IF i > Len(ruleset.metadata) THEN <<>>
            ELSE LET field == ruleset.metadata[i]
                 IN  IF isFieldEmpty(map[field.name], field.type)
                     THEN <<field.name>> \o collect(i + 1)
                     ELSE collect(i + 1)
    IN  collect(1)

getMissingFields(map, ruleset) ==
    LET RECURSIVE collect(_)
        collect(i) ==
            IF i > Len(ruleset.metadata) THEN <<>>
            ELSE LET field == ruleset.metadata[i]
                 IN  IF field.required /\ isFieldEmpty(map[field.name], field.type)
                     THEN <<field.name>> \o collect(i + 1)
                     ELSE collect(i + 1)
    IN  collect(1)

\* the three tests of one loop iteration of hasValidTriggerFields
triggerFieldFails(actualValue, expectedValue) ==
    \/ IsNullish(actualValue)
    \/ /\ expectedValue.t = "string"
       /\ (actualValue.t # "string" \/ Trim(actualValue.s) = <<>>)
    \/ /\ expectedValue.t = "array"
       /\ (actualValue.t # "array" \/ Len(actualValue.l) = 0 \/ EveryItemBlank(actualValue))

hasValidTriggerFields(map, ruleset) ==
    \A i \in 1..Len(ruleset.metadata_match) :
        ~triggerFieldFails(map[ruleset.metadata_match[i].key], ruleset.metadata_match[i].value)

\* the three tests of one loop iteration of getInvalidTriggerFields
triggerFieldInvalid(actualValue, expectedValue) ==
    \/ IsNullish(actualValue)
    \/ /\ expectedValue.t = "string"
       /\ (actualValue.t # "string" \/ Trim(actualValue.s) = <<>>)
    \/ /\ expectedValue.t = "array"
       /\ (actualValue.t # "array" \/ Len(actualValue.l) = 0 \/ EveryItemBlank(actualValue))

\* a collection that stops at the first invalid trigger field
getInvalidTriggerFieldsFirst(map, ruleset) ==
    LET RECURSIVE collect(_)
        collect(i) ==
            IF i > Len(ruleset.metadata_match) THEN <<>>
            ELSE LET entry == ruleset.metadata_match[i]
                 IN  IF triggerFieldInvalid(map[entry.key], entry.value)
                     THEN <<entry.key>>
                     ELSE collect(i + 1)
    IN  collect(1)

getInvalidTriggerFields(map, ruleset) ==
    LET RECURSIVE collect(_)
        collect(i) ==
            IF i > Len(ruleset.metadata_match) THEN <<>>
            ELSE LET entry == ruleset.metadata_match[i]
                 IN  IF triggerFieldInvalid(map[entry.key], entry.value)
                     THEN <<entry.key>> \o collect(i + 1)
                     ELSE collect(i + 1)
    IN  collect(1)

NoMatchResult ==
    [ruleset |-> NoRuleset, matches |-> FALSE, missingFields |-> <<>>, isComplete |-> FALSE]

\* the result's ruleset is the index of the ruleset object in settings.rulesets
evaluateMetadata(fm, rulesets) ==
    IF fm.kind # "object" THEN NoMatchResult
    ELSE LET matchingRuleset == findMatchingRuleset(fm.map, rulesets)
         IN  IF matchingRuleset # NoRuleset
             THEN IF ~hasValidTriggerFields(fm.map, rulesets[matchingRuleset])
                  THEN [ruleset |-> matchingRuleset,
                        matches |-> FALSE,
                        missingFields |-> getInvalidTriggerFields(fm.map, rulesets[matchingRuleset]),
                        isComplete |-> FALSE]
                  ELSE LET missingFields == getMissingFields(fm.map, rulesets[matchingRuleset])
                       IN  [ruleset |-> matchingRuleset,
                            matches |-> TRUE,
                            missingFields |-> missingFields,
                            isComplete |-> Len(missingFields) = 0]
             ELSE NoMatchResult

(***************************************************************************)
(* Default values.  now is the clock read by new Date(): the local         *)
(* calendar fields and the UTC date that toISOString() prints.             *)
(***************************************************************************)
\* the chain of replace() calls, each applied to the result of the one before
formatDate(now, format) ==
    LET year == NatToString(now.year)
        month == PadStart(NatToString(now.month), 2, "0")
        day == PadStart(NatToString(now.day), 2, "0")
        minutes == PadStart(NatToString(now.minutes), 2, "0")
        ampm == IF now.hours >= 12 THEN <<"p", "m">> ELSE <<"a", "m">>
        hours12 == IF now.hours % 12 = 0 THEN 12 ELSE now.hours % 12
    IN  CHOOSE result \in
            {ReplaceFirst(r5, <<"a">>, ampm) : r5 \in
            {ReplaceFirst(r4, <<"m", "m">>, minutes) : r4 \in
            {ReplaceFirst(r3, <<"h", "h">>, PadStart(NatToString(hours12), 2, "0")) : r3 \in
            {ReplaceFirst(r2, <<"D", "D">>, day) : r2 \in
            {ReplaceFirst(r1, <<"M", "M">>, month) : r1 \in
            {ReplaceFirst(format, <<"Y", "Y", "Y", "Y">>, year)}}}}}} : TRUE

toISODate(now) ==
    PadStart(NatToString(now.utcYear), 4, "0") \o <<"-">>
        \o PadStart(NatToString(now.utcMonth), 2, "0") \o <<"-">>
        \o PadStart(NatToString(now.utcDay), 2, "0")

\* a default that ignores the format of a date field
getDefaultValueNoFormat(field, now) ==
    CASE field.type = "string" -> Str(<<>>)
      [] field.type = "array" -> Arr(<<>>)
      [] field.type = "date" -> Str(toISODate(now))
      [] field.type = "number" -> Num(0)
      [] field.type = "boolean" -> Bool(FALSE)
      [] OTHER -> Str(<<>>)

\* a default that gives null for number fields
getDefaultValueNumberNull(field, now) ==
    CASE field.type = "string" -> Str(<<>>)
      [] field.type = "array" -> Arr(<<>>)
      [] field.type = "date" ->
            IF field.format # <<>> THEN Str(formatDate(now, field.format))
            ELSE Str(toISODate(now))
      [] field.type = "number" -> Null
      [] field.type = "boolean" -> Bool(FALSE)
      [] OTHER -> Str(<<>>)

getDefaultValue(field, now) ==
    CASE field.type = "string" -> Str(<<>>)
      [] field.type = "array" -> Arr(<<>>)
      [] field.type = "date" ->
            IF field.format # <<>> THEN Str(formatDate(now, field.format))
            ELSE Str(toISODate(now))
      [] field.type = "number" -> Num(0)
      [] field.type = "boolean" -> Bool(FALSE)
      [] OTHER -> Str(<<>>)

autoPopulateMetadata(map, ruleset, now) ==
    LET RECURSIVE fill(_, _)
        fill(populated, i) ==
            IF i > Len(ruleset.metadata) THEN populated
            ELSE LET field == ruleset.metadata[i]
                 IN  IF populated[field.name].t = "undefined"
                        \/ isFieldEmpty(populated[field.name], field.type)
                     THEN fill([populated EXCEPT ![field.name] = getDefaultValue(field, now)], i + 1)
                     ELSE fill(populated, i + 1)
    IN  fill(map, 1)

(***************************************************************************)
(* MetadataEnforcer (enforcement/metadata-enforcer.ts).                    *)
(***************************************************************************)
\* a decision that takes an empty required field for a missing one
shouldAutoPopulateEmpty(fm, eval, rulesets) ==
    IF ~eval.matches \/ eval.ruleset = NoRuleset THEN FALSE
    ELSE LET ruleset == rulesets[eval.ruleset]
             hit == \E i \in 1..Len(ruleset.metadata_match) :
                        /\ fm.kind = "object"
                        /\ fm.map[ruleset.metadata_match[i].key].t # "undefined"
                        /\ StrictEquals(fm.map[ruleset.metadata_match[i].key],
                                        ruleset.metadata_match[i].value)
             hasMissingRequiredFields ==
                    \E j \in 1..Len(ruleset.metadata) :
                        /\ ruleset.metadata[j].required
                        /\ isFieldEmpty(fm.map[ruleset.metadata[j].name], ruleset.metadata[j].type)
         IN  IF hit THEN hasMissingRequiredFields ELSE FALSE

shouldAutoPopulate(fm, eval, rulesets) ==
    IF ~eval.matches \/ eval.ruleset = NoRuleset THEN FALSE
    ELSE LET ruleset == rulesets[eval.ruleset]
             hit == \E i \in 1..Len(ruleset.metadata_match) :
                        /\ fm.kind = "object"
                        /\ fm.map[ruleset.metadata_match[i].key].t # "undefined"
                        /\ StrictEquals(fm.map[ruleset.metadata_match[i].key],
                                        ruleset.metadata_match[i].value)
             hasMissingRequiredFields ==
                    \E j \in 1..Len(ruleset.metadata) :
                        /\ ruleset.metadata[j].required
                        /\ fm.map[ruleset.metadata[j].name].t = "undefined"
         IN  IF hit THEN hasMissingRequiredFields ELSE FALSE

RECURSIVE EscapeQuotes(_)
EscapeQuotes(s) ==
    IF s = <<>> THEN <<>>
    ELSE IF Head(s) = "\"" THEN <<"\\", "\"">> \o EscapeQuotes(Tail(s))
    ELSE <<Head(s)>> \o EscapeQuotes(Tail(s))

\* String(value) of a scalar
StringOf(value) ==
    CASE value.t = "string" -> value.s
      [] value.t = "number" -> NatToString(value.n)
      [] value.t = "boolean" -> IF value.b THEN STRUE ELSE SFALSE
      [] value.t = "null" -> SNULL
      [] OTHER -> SUNDEFINED

escapeYamlValue(value) ==
    IF value.t = "string"
       /\ (Includes(value.s, ":") \/ Includes(value.s, "\"") \/ Includes(value.s, "'")
           \/ Includes(value.s, "\n") \/ Includes(value.s, "#"))
    THEN <<"\"">> \o EscapeQuotes(value.s) \o <<"\"">>
    ELSE StringOf(value)

\* a writer that leaves out the keys holding an empty list
stringifyFrontmatterSkipEmpty(map) ==
    [k \in Keys |->
        IF map[k].t = "undefined" THEN [form |-> "none", text |-> <<>>, items |-> <<>>]
        ELSE IF map[k].t = "array"
             THEN IF Len(map[k].l) = 0
                  THEN [form |-> "none", text |-> <<>>, items |-> <<>>]
                  ELSE [form |-> "list", text |-> <<>>,
                        items |-> [i \in 1..Len(map[k].l) |-> escapeYamlValue(map[k].l[i])]]
             ELSE [form |-> "scalar", text |-> escapeYamlValue(map[k]), items |-> <<>>]]

\* the text written for each key: absent keys get no line, an empty list is
\* written "[]", another list one "- item" line per item, a scalar its text
stringifyFrontmatter(map) ==
    [k \in Keys |->
        IF map[k].t = "undefined" THEN [form |-> "none", text |-> <<>>, items |-> <<>>]
        ELSE IF map[k].t = "array"
             THEN IF Len(map[k].l) = 0
                  THEN [form |-> "emptylist", text |-> <<>>, items |-> <<>>]
                  ELSE [form |-> "list", text |-> <<>>,
                        items |-> [i \in 1..Len(map[k].l) |-> escapeYamlValue(map[k].l[i])]]
             ELSE [form |-> "scalar", text |-> escapeYamlValue(map[k]), items |-> <<>>]]

RECURSIVE UnescapeQuotes(_)
UnescapeQuotes(s) ==
    IF s = <<>> THEN <<>>
    ELSE IF Len(s) >= 2 /\ s[1] = "\\" /\ s[2] = "\""
         THEN <<"\"">> \o UnescapeQuotes(SubSeq(s, 3, Len(s)))
    ELSE <<Head(s)>> \o UnescapeQuotes(Tail(s))

\* what the metadata cache reads back from one written scalar
parseYamlScalar(text) ==
    LET t == Trim(text)
    IN  IF t = <<>> \/ t = SNULL THEN Null
        ELSE IF Len(t) >= 2 /\ t[1] = "\"" /\ t[Len(t)] = "\""
             THEN Str(UnescapeQuotes(SubSeq(t, 2, Len(t) - 1)))
        ELSE IF t = STRUE THEN Bool(TRUE)
        ELSE IF t = SFALSE THEN Bool(FALSE)
        ELSE IF IsDigits(t) THEN Num(StringToNat(t))
        ELSE Str(t)

\* the frontmatter object the metadata cache holds after vault.modify
readFrontmatter(yaml) ==
    [k \in Keys |->
        CASE yaml[k].form = "none" -> Undefined
          [] yaml[k].form = "emptylist" -> Arr(<<>>)
          [] yaml[k].form = "list" ->
                Arr([i \in 1..Len(yaml[k].items) |-> parseYamlScalar(yaml[k].items[i])])
          [] OTHER -> parseYamlScalar(yaml[k].text)]

NoAlert == [type |-> "none", text |-> <<>>]

\* a feedback that tests matches alone and shows one alert for both outcomes
updateVisualFeedbackCollapsed(eval, rulesets, warnings, organized) ==
    IF ~warnings THEN NoAlert
    ELSE IF ~eval.matches
         THEN [type |-> "warning", text |-> <<"Properties match no rulesets">>]
    ELSE IF ~eval.isComplete
         THEN [type |-> "warning",
               text |-> <<rulesets[eval.ruleset].name, " - Missing Values: ">>
                            \o eval.missingFields]
    ELSE NoAlert

\* organized is the answer of AutoOrganizer.checkIfNoteIsOrganized
updateVisualFeedback(eval, rulesets, warnings, organized) ==
    IF ~warnings THEN NoAlert
    ELSE IF ~eval.matches /\ eval.ruleset = NoRuleset
         THEN [type |-> "warning", text |-> <<"Properties match no rulesets">>]
    ELSE IF ~eval.matches /\ eval.ruleset # NoRuleset
         THEN [type |-> "warning",
               text |-> <<rulesets[eval.ruleset].name, " - Invalid trigger fields: ">>
                            \o eval.missingFields]
    ELSE IF ~eval.isComplete /\ eval.ruleset # NoRuleset
         THEN [type |-> "warning",
               text |-> <<rulesets[eval.ruleset].name, " - Missing Values: ">>
                            \o eval.missingFields]
    ELSE IF eval.isComplete /\ eval.ruleset # NoRuleset
         THEN LET ruleset == rulesets[eval.ruleset]
                  hasAutoTitle == ruleset.autoTitleMode # "never" /\ ruleset.title # <<>>
                  hasAutoMove == ruleset.enableAutoMove /\ ruleset.path # <<>>
              IN  IF (hasAutoTitle \/ hasAutoMove) /\ ~organized
                  THEN [type |-> "success", text |-> <<ruleset.name>>]
                  ELSE NoAlert
    ELSE NoAlert

(***************************************************************************)
(* Settings: the default O3 ruleset and the rulesets a user can add.       *)
(***************************************************************************)
SO3 == <<"O", "3">>

SX == <<"x">>

SAlice == <<"A", "l", "i", "c", "e">>

SBlank == <<" ">>

SDate == <<"2", "0", "2", "4", "-", "0", "1", "-", "1", "5">>

FormatYMD == <<"Y", "Y", "Y", "Y", "-", "M", "M", "-", "D", "D">>

TitleO3 == <<"{", "a", "t", "t", "e", "n", "d", "e", "e", "s", "}", " ", "O", "3", " ", "-", " ", "{", "d", "a", "t", "e", ":", "Y", "Y", "Y", "Y", "-", "M", "M", "-", "D", "D", " ", "h", "h", ":", "m", "m", "a", "}">>

PathO3 == <<"A", "r", "e", "a", "s", "/", "W", "o", "r", "k", "/", "O", "3", "s", "/", "{", "a", "t", "t", "e", "n", "d", "e", "e", "s", "}">>

PathNotes == <<"N", "o", "t", "e", "s">>

Field(name, type, required, format) ==
    [name |-> name, type |-> type, required |-> required, format |-> format]

Cond(key, value) == [key |-> key, value |-> value]

DefaultRuleset ==
    [name |-> "O3",
     metadata_match |-> <<Cond("type", Str(SO3))>>,
     metadata |-> <<Field("attendees", "array", TRUE, <<>>),
                    Field("date", "date", TRUE, FormatYMD)>>,
     title |-> TitleO3, path |-> PathO3,
     autoTitleMode |-> "always", enableAutoMove |-> TRUE]

\* no trigger: matches every frontmatter object
RulesetAny ==
    [name |-> "Any",
     metadata_match |-> <<>>,
     metadata |-> <<Field("date", "number", TRUE, <<>>),
                    Field("attendees", "string", FALSE, <<>>)>>,
     title |-> <<>>, path |-> PathNotes,
     autoTitleMode |-> "never", enableAutoMove |-> TRUE]

\* triggers that can only be met by empty values
RulesetPart ==
    [name |-> "Part",
     metadata_match |-> <<Cond("type", Str(SO3)), Cond("attendees", Null),
                          Cond("date", Str(SBlank))>>,
     metadata |-> <<>>,
     title |-> <<>>, path |-> <<>>,
     autoTitleMode |-> "never", enableAutoMove |-> FALSE]

\* populating it replaces its own trigger value, empty for a boolean
RulesetTyped ==
    [name |-> "Typed",
     metadata_match |-> <<Cond("type", Str(SX))>>,
     metadata |-> <<Field("attendees", "number", TRUE, <<>>),
                    Field("type", "boolean", FALSE, <<>>)>>,
     title |-> <<>>, path |-> PathNotes,
     autoTitleMode |-> "if_unset", enableAutoMove |-> TRUE]

RulesetStr ==
    [name |-> "Str",
     metadata_match |-> <<Cond("type", Bool(FALSE))>>,
     metadata |-> <<Field("date", "date", TRUE, <<>>),
                    Field("attendees", "string", TRUE, <<>>)>>,
     title |-> <<>>, path |-> <<>>,
     autoTitleMode |-> "always", enableAutoMove |-> TRUE]

\* no required field
RulesetZero ==
    [name |-> "Zero",
     metadata_match |-> <<Cond("type", Str(SO3))>>,
     metadata |-> <<Field("date", "date", FALSE, SBlank)>>,
     title |-> <<>>, path |-> PathNotes,
     autoTitleMode |-> "never", enableAutoMove |-> TRUE]

RulesetPool ==
    {DefaultRuleset, RulesetAny, RulesetPart, RulesetTyped, RulesetStr, RulesetZero}

\* the ruleset lists of the settings: no ruleset twice
RulesetLists ==
    UNION {{rs \in [1..n -> RulesetPool] : \A i, j \in 1..n : i # j => rs[i] # rs[j]}
           : n \in 0..MaxRulesets}

\* the values a user types into the frontmatter of the document
UserValues(key) ==
    CASE key = "type" -> {Null, Str(<<>>), Str(SBlank), Str(SO3), Str(SX), Bool(FALSE)}
      [] key = "attendees" ->
            {Null, Arr(<<>>), Arr(<<Str(<<>>)>>), Arr(<<Str(SAlice)>>), Str(SBlank), Str(SX)}
      [] OTHER -> {Str(SBlank), Str(SDate)}

\* new Date(): a morning, and an evening whose UTC date is the next day
Clock ==
    {[year |-> 2026, month |-> 11, day |-> 3, hours |-> 9, minutes |-> 5,
      utcYear |-> 2026, utcMonth |-> 11, utcDay |-> 3],
     [year |-> 2026, month |-> 11, day |-> 3, hours |-> 23, minutes |-> 30,
      utcYear |-> 2026, utcMonth |-> 11, utcDay |-> 4]}

EmptyMap == [k \in Keys |-> Undefined]

NoFrontmatter == [kind |-> "undefined", map |-> EmptyMap]

InvalidFrontmatter == [kind |-> "null", map |-> EmptyMap]

(***************************************************************************)
(* The state machine.                                                      *)
(*   settings      settings.rulesets                                       *)
(*   frontmatter   the metadata cache's frontmatter of the document        *)
(*   pending       a call of evaluateFile for the document is due          *)
(*   evaluation    the result of the last evaluateMetadata of evaluateFile *)
(*   alert         the alert shown for the document                        *)
(*   writes        write-backs of auto-population since the last user edit *)
(*   populatedFor  the rulesets those write-backs populated                *)
(***************************************************************************)
\* no function of the core is under call
NoCall == call = [op |-> "none"] /\ ret = [op |-> "none"]

\* the organizer is not in use: a note at the root of an empty vault
NoVault ==
    /\ notePath = <<"n", ".", "m", "d">>
    /\ folders = {}
    /\ files = {notePath}
    /\ vaultLog = <<>>
    /\ outcome = <<>>

Init ==
    /\ settings \in RulesetLists
    /\ enableWarnings = TRUE
    /\ frontmatter = NoFrontmatter
    /\ pending = TRUE
    /\ evaluation = NoMatchResult
    /\ alert = NoAlert
    /\ writes = 0
    /\ populatedFor = {}
    /\ NoCall
    /\ NoVault

UserEdit(fm) ==
    /\ ~pending
    /\ frontmatter' = fm
    /\ pending' = TRUE
    /\ writes' = 0
    /\ populatedFor' = {}
    /\ UNCHANGED <<settings, enableWarnings, evaluation, alert, callVars, vaultVars>>

UserSetField ==
    \E k \in Keys : \E v \in UserValues(k) :
        /\ frontmatter.kind \in {"undefined", "null", "object"}
        /\ UserEdit([kind |-> "object",
                  map |-> [(IF frontmatter.kind = "object" THEN frontmatter.map ELSE EmptyMap)
                              EXCEPT ![k] = v]])

UserRemoveField ==
    \E k \in Keys :
        /\ frontmatter.kind = "object"
        /\ frontmatter.map[k].t # "undefined"
        /\ UserEdit([frontmatter EXCEPT !.map[k] = Undefined])

UserRemoveFrontmatter ==
    /\ frontmatter.kind # "undefined"
    /\ UserEdit(NoFrontmatter)

UserBreaksFrontmatter ==
    /\ frontmatter.kind # "null"
    /\ UserEdit(InvalidFrontmatter)

\* workspace 'active-leaf-change': the document is evaluated again
ActiveLeafChange ==
    /\ ~pending
    /\ pending' = TRUE
    /\ UNCHANGED <<settings, enableWarnings, frontmatter, evaluation, alert, writes, populatedFor,
                   callVars, vaultVars>>

\* the toggle-warnings command: saveSettings, then evaluateAllFiles
ToggleWarnings ==
    /\ ~pending
    /\ enableWarnings' = ~enableWarnings
    /\ alert' = IF enableWarnings' THEN alert ELSE NoAlert
    /\ pending' = TRUE
    /\ UNCHANGED <<settings, frontmatter, evaluation, writes, populatedFor, callVars, vaultVars>>

\* evaluateFile on invalid YAML: the alert, and nothing else
EvaluateInvalidYaml ==
    /\ pending
    /\ frontmatter.kind = "null"
    /\ alert' = [type |-> "warning", text |-> <<"Invalid YAML frontmatter detected">>]
    /\ pending' = FALSE
    /\ UNCHANGED <<settings, enableWarnings, frontmatter, evaluation, writes, populatedFor,
                   callVars, vaultVars>>

\* evaluateFile, auto-population: the populated metadata is written to the
\* file, and the metadata cache's 'changed' event calls evaluateFile again
EvaluateAutoPopulate ==
    /\ pending
    /\ frontmatter.kind # "null"
    /\ writes < MaxWrites
    /\ \E eval \in {evaluateMetadata(frontmatter, settings)} :
           /\ shouldAutoPopulate(frontmatter, eval, settings)
           /\ \E now \in Clock :
                 \E populatedMetadata \in {autoPopulateMetadata(frontmatter.map, settings[eval.ruleset], now)} :
                     \E yamlContent \in {stringifyFrontmatter(populatedMetadata)} :
                         frontmatter' = [kind |-> "object", map |-> readFrontmatter(yamlContent)]
           /\ evaluation' = eval
           /\ populatedFor' = populatedFor \cup {eval.ruleset}
    /\ writes' = writes + 1
    /\ pending' = TRUE
    /\ UNCHANGED <<settings, enableWarnings, alert, callVars, vaultVars>>

\* evaluateFile, no auto-population: the alert is replaced
EvaluateFeedback ==
    /\ pending
    /\ frontmatter.kind # "null"
    /\ \E eval \in {evaluateMetadata(frontmatter, settings)} :
           /\ ~shouldAutoPopulate(frontmatter, eval, settings)
           /\ evaluation' = eval
           /\ \E organized \in BOOLEAN :
                 alert' = updateVisualFeedback(eval, settings, enableWarnings, organized)
    /\ pending' = FALSE
    /\ UNCHANGED <<settings, enableWarnings, frontmatter, writes, populatedFor, callVars, vaultVars>>

Next ==
    \/ UserSetField
    \/ UserRemoveField
    \/ UserRemoveFrontmatter
    \/ UserBreaksFrontmatter
    \/ ActiveLeafChange
    \/ ToggleWarnings
    \/ EvaluateInvalidYaml
    \/ EvaluateAutoPopulate
    \/ EvaluateFeedback

Spec == Init /\ [][Next]_vars

\* One write cycle: the document is opened or created with a frontmatter the
\* user has typed, and nobody edits it while the evaluations run.
UserFrontmatters ==
    {NoFrontmatter, InvalidFrontmatter}
        \cup {[kind |-> "object", map |-> m] :
                 m \in {f \in [Keys -> UNION {UserValues(k) : k \in Keys} \cup {Undefined}] :
                           \A k \in Keys : f[k] \in UserValues(k) \cup {Undefined}}}

CycleInit ==
    /\ settings \in RulesetLists
    /\ enableWarnings \in BOOLEAN
    /\ frontmatter \in UserFrontmatters
    /\ pending = TRUE
    /\ evaluation = NoMatchResult
    /\ alert = NoAlert
    /\ writes = 0
    /\ populatedFor = {}
    /\ NoCall
    /\ NoVault

CycleNext == EvaluateInvalidYaml \/ EvaluateAutoPopulate \/ EvaluateFeedback

\* the event loop runs every evaluateFile that an event has made due
CycleSpec == CycleInit /\ [][CycleNext]_vars /\ WF_vars(CycleNext)

(***************************************************************************)
(* Calls of isFieldEmpty and getMissingFields on one value of one declared *)
(* type, a type of the settings or one the settings do not know.           *)
(***************************************************************************)
\* the enforcer has no ruleset and no document to evaluate
EnforcerIdle ==
    /\ settings = <<>>
    /\ enableWarnings = TRUE
    /\ frontmatter = NoFrontmatter
    /\ pending = FALSE
    /\ evaluation = NoMatchResult
    /\ alert = NoAlert
    /\ writes = 0
    /\ populatedFor = {}

FieldTypes == {"string", "array", "date", "number", "boolean"}

UnknownTypes == {"text", "list"}

SSeven == <<" ", "7", " ">>

SMinusFive == <<"-", "5">>

SMinus == <<"-">>

SBob == <<"B", "o", "b">>

\* values a frontmatter key can hold; Undefined is the key being absent
FieldValues ==
    {Undefined, Null,
     Str(<<>>), Str(SBlank), Str(<<"\t", " ">>), Str(SX), Str(SDate), Str(SSeven),
     Str(SMinusFive), Str(SMinus), Str(SInfinity), Str(<<"-">> \o SInfinity),
     Num(0), Num(5), Bool(TRUE), Bool(FALSE),
     Arr(<<>>), Arr(<<Str(<<>>)>>), Arr(<<Null>>), Arr(<<Undefined, Str(SBlank)>>),
     Arr(<<Str(SAlice)>>), Arr(<<Str(SBlank), Str(SAlice)>>), Arr(<<Null, Num(0)>>),
     Arr(<<Bool(FALSE)>>), Arr(<<Str(SAlice), Str(SBob)>>)}

EmptinessInit ==
    /\ EnforcerIdle
    /\ NoVault
    /\ call \in [op : {"field"}, value : FieldValues, type : FieldTypes \cup UnknownTypes,
                 required : BOOLEAN]
    /\ ret = [op |-> "none"]

CallIsFieldEmpty ==
    /\ call.op = "field"
    /\ ret.op = "none"
    /\ ret' = [op |-> "isFieldEmpty", empty |-> isFieldEmpty(call.value, call.type)]
    /\ UNCHANGED <<settings, enableWarnings, frontmatter, pending, evaluation, alert, writes,
                   populatedFor, call, vaultVars>>

\* getMissingFields of a ruleset that declares the one field, for a
\* frontmatter that holds the value under the field's name
CallGetMissingFields ==
    /\ call.op = "field"
    /\ ret.op = "none"
    /\ ret' = [op |-> "getMissingFields",
               missing |-> getMissingFields(
                               [EmptyMap EXCEPT !["date"] = call.value],
                               [DefaultRuleset EXCEPT
                                   !.metadata = <<Field("date", call.type, call.required, <<>>)>>])]
    /\ UNCHANGED <<settings, enableWarnings, frontmatter, pending, evaluation, alert, writes,
                   populatedFor, call, vaultVars>>

EmptinessNext == CallIsFieldEmpty \/ CallGetMissingFields

EmptinessSpec == EmptinessInit /\ [][EmptinessNext]_vars

(***************************************************************************)
(* PlaceholderProcessor (core/placeholder-processor.ts).                   *)
(***************************************************************************)
\* s.split(c)
RECURSIVE Split(_, _)
Split(s, c) ==
    LET i == IndexOf(s, <<c>>)
    IN  IF i = 0 THEN <<s>>
        ELSE <<SubSeq(s, 1, i - 1)>> \o Split(SubSeq(s, i + 1, Len(s)), c)

\* parts.join(sep)
RECURSIVE Join(_, _)
Join(parts, sep) ==
    IF parts = <<>> THEN <<>>
    ELSE IF Len(parts) = 1 THEN parts[1]
    ELSE parts[1] \o sep \o Join(Tail(parts), sep)

\* s.replace(/[chars]/g, '')
RECURSIVE RemoveChars(_, _)
RemoveChars(s, chars) ==
    IF s = <<>> THEN <<>>
    ELSE IF Head(s) \in chars THEN RemoveChars(Tail(s), chars)
    ELSE <<Head(s)>> \o RemoveChars(Tail(s), chars)

\* s.replace(/\s+/g, ' ')
RECURSIVE CollapseWhiteSpace(_)
CollapseWhiteSpace(s) ==
    IF s = <<>> THEN <<>>
    ELSE IF Head(s) \in WhiteSpace THEN <<" ">> \o CollapseWhiteSpace(TrimStart(s))
    ELSE <<Head(s)>> \o CollapseWhiteSpace(Tail(s))

\* s.replace(/\o([^\c]+)\c/g, '$1') for one-character delimiters o and c
RECURSIVE Unwrap(_, _, _)
Unwrap(s, o, c) ==
    IF s = <<>> THEN <<>>
    ELSE IF Head(s) = o
         THEN LET close == IndexOf(Tail(s), <<c>>)
              IN  IF close = 0 THEN s
                  ELSE IF close = 1 THEN <<o>> \o Unwrap(Tail(s), o, c)
                  ELSE SubSeq(s, 2, close) \o Unwrap(SubSeq(s, close + 2, Len(s)), o, c)
    ELSE <<Head(s)>> \o Unwrap(Tail(s), o, c)

\* s.replace(/\[\[([^\]]+)\]\]/g, '$1')
RECURSIVE UnwrapLink(_)
UnwrapLink(s) ==
    IF Len(s) < 5 THEN s
    ELSE IF s[1] = "[" /\ s[2] = "["
         THEN LET close == IndexOf(SubSeq(s, 3, Len(s)), <<"]">>)
              IN  IF close >= 2 /\ close + 3 <= Len(s) /\ s[close + 3] = "]"
                  THEN SubSeq(s, 3, close + 1) \o UnwrapLink(SubSeq(s, close + 4, Len(s)))
                  ELSE <<"[">> \o UnwrapLink(Tail(s))
    ELSE <<Head(s)>> \o UnwrapLink(Tail(s))

\* the grave accent, one character of a string
BackTick == "grave"

stripSymbols(text) ==
    Trim(CollapseWhiteSpace(RemoveChars(
        Unwrap(Unwrap(Unwrap(UnwrapLink(text), "[", "]"), "(", ")"), "{", "}"),
        {"@", "#", "*", "_", "~", BackTick, "|", "\\", "/"})))

\* a sanitizer that collapses the white space before it removes characters
sanitizeForFilenameCollapseFirst(text) ==
    Trim(RemoveChars(CollapseWhiteSpace(text), {"<", ">", ":", "\"", "/", "\\", "|", "?", "*"}))

sanitizeForFilename(text) ==
    Trim(CollapseWhiteSpace(RemoveChars(text, {"<", ">", ":", "\"", "/", "\\", "|", "?", "*"})))

sanitizeForPath(path) ==
    LET segments == Split(path, "/")
        sanitized == [i \in 1..Len(segments) |-> sanitizeForFilename(segments[i])]
        NonEmpty(segment) == Len(segment) > 0
    IN  Join(SelectSeq(sanitized, NonEmpty), <<"/">>)

\* the key of a mapping as the characters a template writes
KeyChars(k) ==
    CASE k = "type" -> <<"t", "y", "p", "e">>
      [] k = "attendees" -> <<"a", "t", "t", "e", "n", "d", "e", "e", "s">>
      [] k = "date" -> <<"d", "a", "t", "e">>
      [] OTHER -> <<"c", "r", "e", "a", "t", "e", "d">>

SCreated == KeyChars("created")

SStrip == <<"s", "t", "r", "i", "p">>

\* the local time zone, in minutes east of UTC
TimeZones == {0, 0 - 300, 330}

IsLeapYear(y) == (y % 4 = 0 /\ y % 100 # 0) \/ y % 400 = 0

DaysInMonth(y, m) ==
    IF m = 2 THEN (IF IsLeapYear(y) THEN 29 ELSE 28)
    ELSE IF m \in {4, 6, 9, 11} THEN 30 ELSE 31

\* the local calendar fields of UTC midnight of a day
LocalOfUTCMidnight(y, m, d, tz) ==
    IF tz >= 0
    THEN [valid |-> TRUE, year |-> y, month |-> m, day |-> d,
          hours |-> tz \div 60, minutes |-> tz % 60]
    ELSE LET left == 1440 + tz
             py == IF m = 1 /\ d = 1 THEN y - 1 ELSE y
             pm == IF d > 1 THEN m ELSE IF m = 1 THEN 12 ELSE m - 1
             pd == IF d > 1 THEN d - 1 ELSE DaysInMonth(py, pm)
         IN  [valid |-> TRUE, year |-> py, month |-> pm, day |-> pd,
              hours |-> left \div 60, minutes |-> left % 60]

InvalidDate == [valid |-> FALSE, year |-> 0, month |-> 0, day |-> 0, hours |-> 0, minutes |-> 0]

\* new Date(s) for the strings of the model: "YYYY-MM-DD" is midnight UTC,
\* "YYYY-MM-DDTHH:mm" is local time, every other string is an Invalid Date
ParseDate(s, tz) ==
    LET IsDate(u) == /\ Len(u) = 10
                     /\ \A i \in {1, 2, 3, 4, 6, 7, 9, 10} : u[i] \in Digits
                     /\ u[5] = "-" /\ u[8] = "-"
        y == StringToNat(SubSeq(s, 1, 4))
        m == StringToNat(SubSeq(s, 6, 7))
        d == StringToNat(SubSeq(s, 9, 10))
        OnCalendar == m \in 1..12 /\ d \in 1..DaysInMonth(y, m)
    IN  IF IsDate(s) /\ OnCalendar THEN LocalOfUTCMidnight(y, m, d, tz)
        ELSE IF /\ Len(s) = 16 /\ IsDate(SubSeq(s, 1, 10)) /\ OnCalendar
                /\ s[11] = "T" /\ s[14] = ":"
                /\ IsDigits(SubSeq(s, 12, 13)) /\ IsDigits(SubSeq(s, 15, 16))
                /\ StringToNat(SubSeq(s, 12, 13)) < 24 /\ StringToNat(SubSeq(s, 15, 16)) < 60
             THEN [valid |-> TRUE, year |-> y, month |-> m, day |-> d,
                   hours |-> StringToNat(SubSeq(s, 12, 13)),
                   minutes |-> StringToNat(SubSeq(s, 15, 16))]
        ELSE InvalidDate

\* a Date instance
DateOf(fields) == [t |-> "Date", fields |-> fields]

\* String(value): a list prints its items joined by ","
StringOfAny(value) ==
    IF value.t = "array"
    THEN Join([i \in 1..Len(value.l) |->
                   IF IsNullish(value.l[i]) THEN <<>> ELSE StringOf(value.l[i])], <<",">>)
    ELSE StringOf(value)

formatDateValue(value, format, tz) ==
    IF value.t = "Date" THEN formatDate(value.fields, format)
    ELSE IF value.t = "string"
         THEN LET date == ParseDate(value.s, tz)
              IN  IF ~date.valid THEN value.s ELSE formatDate(date, format)
    ELSE StringOfAny(value)

\* a callback that looks a created placeholder up in the mapping when no file
\* is given
resolvePlaceholderCreatedKey(match, placeholder, fm, file, tz) ==
    LET parts == Split(placeholder, ":")
        fieldName == Trim(parts[1])
        hasModifier == Len(parts) >= 2
        modifier == IF hasModifier THEN Trim(parts[2]) ELSE <<>>
        owned == {k \in DOMAIN fm : KeyChars(k) = fieldName /\ fm[k].t # "undefined"}
    IN  IF fieldName = SCreated
        THEN IF file.present
             THEN IF modifier # <<>>
                  THEN formatDateValue(DateOf(file.ctime), modifier, tz)
                  ELSE formatDateValue(DateOf(file.ctime), FormatYMD, tz)
             ELSE IF owned = {} THEN match ELSE StringOf(fm[CHOOSE k \in owned : TRUE])
        ELSE IF owned = {} THEN match
        ELSE LET value == fm[CHOOSE k \in owned : TRUE]
             IN  IF fieldName = KeyChars("date") /\ modifier # <<>> /\ modifier # SStrip
                 THEN formatDateValue(value, modifier, tz)
                 ELSE IF value.t = "array"
                      THEN Join([i \in 1..Len(value.l) |->
                                    IF modifier = SStrip THEN stripSymbols(StringOf(value.l[i]))
                                    ELSE StringOf(value.l[i])],
                                <<",", " ">>)
                 ELSE IF modifier = SStrip THEN stripSymbols(StringOf(value))
                 ELSE StringOf(value)

\* the callback of replace(): the text put in the place of one match
resolvePlaceholder(match, placeholder, fm, file, tz) ==
    LET parts == Split(placeholder, ":")
        fieldName == Trim(parts[1])
        hasModifier == Len(parts) >= 2
        modifier == IF hasModifier THEN Trim(parts[2]) ELSE <<>>
        owned == {k \in DOMAIN fm : KeyChars(k) = fieldName /\ fm[k].t # "undefined"}
    IN  IF fieldName = SCreated
        THEN IF file.present
             THEN IF modifier # <<>>
                  THEN formatDateValue(DateOf(file.ctime), modifier, tz)
                  ELSE formatDateValue(DateOf(file.ctime), FormatYMD, tz)
             ELSE match
        ELSE IF owned = {} THEN match
        ELSE LET value == fm[CHOOSE k \in owned : TRUE]
             IN  IF fieldName = KeyChars("date") /\ modifier # <<>> /\ modifier # SStrip
                 THEN formatDateValue(value, modifier, tz)
                 ELSE IF value.t = "array"
                      THEN Join([i \in 1..Len(value.l) |->
                                    IF modifier = SStrip THEN stripSymbols(StringOf(value.l[i]))
                                    ELSE StringOf(value.l[i])],
                                <<",", " ">>)
                 ELSE IF modifier = SStrip THEN stripSymbols(StringOf(value))
                 ELSE StringOf(value)

\* a replace() without the g flag: the first match only
processPlaceholdersFirstOnly(template, fm, file, tz) ==
    LET RECURSIVE scan(_)
        scan(s) ==
            IF s = <<>> THEN <<>>
            ELSE IF Head(s) = "{"
                 THEN LET close == IndexOf(Tail(s), <<"}">>)
                      IN  IF close = 0 THEN s
                          ELSE IF close = 1 THEN <<"{">> \o scan(Tail(s))
                          ELSE resolvePlaceholder(SubSeq(s, 1, close + 1), SubSeq(s, 2, close),
                                                  fm, file, tz)
                                   \o SubSeq(s, close + 2, Len(s))
            ELSE <<Head(s)>> \o scan(Tail(s))
    IN  IF template = <<>> THEN <<>> ELSE scan(template)

\* template.replace(/\{([^}]+)\}/g, callback); tz is the zone of the host
processPlaceholders(template, fm, file, tz) ==
    LET RECURSIVE scan(_)
        scan(s) ==
            IF s = <<>> THEN <<>>
            ELSE IF Head(s) = "{"
                 THEN LET close == IndexOf(Tail(s), <<"}">>)
                      IN  IF close = 0 THEN s
                          ELSE IF close = 1 THEN <<"{">> \o scan(Tail(s))
                          ELSE resolvePlaceholder(SubSeq(s, 1, close + 1), SubSeq(s, 2, close),
                                                  fm, file, tz)
                                   \o scan(SubSeq(s, close + 2, Len(s)))
            ELSE <<Head(s)>> \o scan(Tail(s))
    IN  IF template = <<>> THEN <<>> ELSE scan(template)

NoFile == [present |-> FALSE, ctime |-> InvalidDate]

(***************************************************************************)
(* Calls of processPlaceholders.  A template is written as a sequence of   *)
(* pieces, plain text or one placeholder each; the function is given the   *)
(* concatenation of the pieces.                                            *)
(***************************************************************************)
MaxPieces == 3

TextPiece(raw) == [kind |-> "text", raw |-> raw, name |-> <<>>]

\* the placeholder {inner}, whose field name is name
FieldPiece(inner, name) == [kind |-> "field", raw |-> <<"{">> \o inner \o <<"}">>, name |-> name]

PieceType == FieldPiece(KeyChars("type"), KeyChars("type"))

PieceAttendees == FieldPiece(<<" ">> \o KeyChars("attendees") \o <<" ">>, KeyChars("attendees"))

PieceDate == FieldPiece(KeyChars("date") \o <<":">> \o FormatYMD, KeyChars("date"))

PieceDateBrace == FieldPiece(KeyChars("date") \o <<":", "{", "D", "D">>, KeyChars("date"))

PieceCreated == FieldPiece(SCreated, SCreated)

PieceCreatedDay == FieldPiece(SCreated \o <<":", "D", "D">>, SCreated)

PieceTitle == FieldPiece(<<"t", "i", "t", "l", "e">>, <<"t", "i", "t", "l", "e">>)

PieceTypeStrip == FieldPiece(KeyChars("type") \o <<":">> \o SStrip, KeyChars("type"))

Pieces ==
    {TextPiece(<<"a", " ">>), TextPiece(<<" ", "-", " ">>), TextPiece(<<"}">>),
     TextPiece(<<"{", "}">>),
     PieceType, PieceAttendees, PieceDate, PieceDateBrace, PieceCreated, PieceCreatedDay,
     PieceTitle, PieceTypeStrip}

PieceLists == UNION {[1..n -> Pieces] : n \in 1..MaxPieces}

TemplateOf(pieces) == Join([i \in 1..Len(pieces) |-> pieces[i].raw], <<>>)

TemplateKeys == Keys \cup {"created"}

SBraced == <<"{", "x", "}">>

\* field mappings: the O3 note, one without keys, one whose values hold
\* braces and that has a key named created, one of empty values
TemplateMaps ==
    {[k \in TemplateKeys |->
        CASE k = "type" -> Str(SO3)
          [] k = "attendees" -> Arr(<<Str(SAlice), Str(SBob)>>)
          [] k = "date" -> Str(SDate)
          [] OTHER -> Undefined],
     [k \in TemplateKeys |-> Undefined],
     [k \in TemplateKeys |->
        CASE k = "type" -> Str(SBraced)
          [] k = "attendees" -> Arr(<<Str(<<"{">>)>>)
          [] k = "date" -> Str(SX)
          [] OTHER -> Str(SX)],
     [k \in TemplateKeys |->
        CASE k = "type" -> Null
          [] k = "attendees" -> Arr(<<>>)
          [] k = "date" -> Str(SBlank)
          [] OTHER -> Num(5)]}

\* the file argument: absent, or a file with its creation time
TemplateFiles ==
    {NoFile} \cup {[present |-> TRUE,
                    ctime |-> [valid |-> TRUE, year |-> c.year, month |-> c.month,
                               day |-> c.day, hours |-> c.hours, minutes |-> c.minutes]]
                   : c \in Clock}

TemplateInit ==
    /\ EnforcerIdle
    /\ NoVault
    /\ call \in [op : {"template"}, pieces : PieceLists, fm : TemplateMaps,
                 file : TemplateFiles, tz : TimeZones]
    /\ ret = [op |-> "none"]

CallProcessPlaceholders ==
    /\ call.op = "template"
    /\ ret.op = "none"
    /\ ret' = [op |-> "processPlaceholders",
               text |-> processPlaceholders(TemplateOf(call.pieces), call.fm, call.file, call.tz)]
    /\ UNCHANGED <<settings, enableWarnings, frontmatter, pending, evaluation, alert, writes,
                   populatedFor, call, vaultVars>>

TemplateNext == CallProcessPlaceholders

TemplateSpec == TemplateInit /\ [][TemplateNext]_vars

(***************************************************************************)
(* AutoOrganizer (organization/auto-organizer.ts).  The vault is the set   *)
(* of its folder paths and the set of its file paths; host says what the   *)
(* host application does where the plugin's code does not decide it: the   *)
(* path of the root folder, and whether rename() normalizes the new path.  *)
(***************************************************************************)
SMd == <<".", "m", "d">>

\* the positions of c in s
Positions(s, c) == {i \in 1..Len(s) : s[i] = c}

LastPosition(s, c) ==
    IF Positions(s, c) = {} THEN 0
    ELSE CHOOSE i \in Positions(s, c) : \A j \in Positions(s, c) : j <= i

\* file.name, file.basename and file.parent.path of the file at path
FileName(path) == SubSeq(path, LastPosition(path, "/") + 1, Len(path))

FileBasename(path) ==
    LET name == FileName(path)
        dot == LastPosition(name, ".")
    IN  IF dot <= 1 THEN name ELSE SubSeq(name, 1, dot - 1)

ParentPath(path, host) ==
    LET slash == LastPosition(path, "/")
    IN  IF slash = 0 THEN host.rootPath ELSE SubSeq(path, 1, slash - 1)

\* path.replace(/^\/+|\/+$/g, '')
RECURSIVE StripSlashes(_)
StripSlashes(path) ==
    IF path = <<>> THEN path
    ELSE IF Head(path) = "/" THEN StripSlashes(Tail(path))
    ELSE IF path[Len(path)] = "/" THEN StripSlashes(SubSeq(path, 1, Len(path) - 1))
    ELSE path

\* the path under which the host files a path it is given, when it normalizes
NormalizePath(path) ==
    LET NonEmpty(segment) == Len(segment) > 0
    IN  Join(SelectSeq(Split(path, "/"), NonEmpty), <<"/">>)

\* a walk that creates a folder where a file of that path exists
ensurePathExistsOverFile(path, vaultFolders, vaultFiles) ==
    IF path = <<>> \/ path = <<"/">> THEN [threw |-> FALSE, created |-> <<>>]
    ELSE LET normalizedPath == StripSlashes(path)
             segments == Split(normalizedPath, "/")
             RECURSIVE walk(_, _, _)
             walk(i, currentPath, created) ==
                 IF i > Len(segments) THEN [threw |-> FALSE, created |-> created]
                 ELSE LET next == IF currentPath # <<>>
                                  THEN currentPath \o <<"/">> \o segments[i]
                                  ELSE segments[i]
                      IN  IF next \in vaultFolders \/ \E j \in 1..Len(created) : created[j] = next
                          THEN walk(i + 1, next, created)
                          ELSE walk(i + 1, next, Append(created, next))
         IN  IF normalizedPath = <<>> THEN [threw |-> FALSE, created |-> <<>>]
             ELSE walk(1, <<>>, <<>>)

\* the folders created, in order, and whether the walk threw on a segment
\* that exists and is not a folder
ensurePathExists(path, vaultFolders, vaultFiles) ==
    IF path = <<>> \/ path = <<"/">> THEN [threw |-> FALSE, created |-> <<>>]
    ELSE LET normalizedPath == StripSlashes(path)
             segments == Split(normalizedPath, "/")
             RECURSIVE walk(_, _, _)
             walk(i, currentPath, created) ==
                 IF i > Len(segments) THEN [threw |-> FALSE, created |-> created]
                 ELSE LET next == IF currentPath # <<>>
                                  THEN currentPath \o <<"/">> \o segments[i]
                                  ELSE segments[i]
                      IN  IF next \in vaultFolders \/ \E j \in 1..Len(created) : created[j] = next
                          THEN walk(i + 1, next, created)
                          ELSE IF next \in vaultFiles
                               THEN [threw |-> TRUE, created |-> created]
                          ELSE walk(i + 1, next, Append(created, next))
         IN  IF normalizedPath = <<>> THEN [threw |-> FALSE, created |-> <<>>]
             ELSE walk(1, <<>>, <<>>)

\* the candidate of one round of the loop: the counter is put before the
\* extension of the desired name
NumberedPath(desiredPath, counter) ==
    LET pathParts == Split(desiredPath, "/")
        filename == pathParts[Len(pathParts)]
        directory == Join(SubSeq(pathParts, 1, Len(pathParts) - 1), <<"/">>)
        nameWithoutExt ==
            IF Len(filename) >= 3 /\ SubSeq(filename, Len(filename) - 2, Len(filename)) = SMd
            THEN SubSeq(filename, 1, Len(filename) - 3)
            ELSE filename
        numberedName == nameWithoutExt \o <<" ">> \o NatToString(counter) \o SMd
    IN  IF directory # <<>> THEN directory \o <<"/">> \o numberedName ELSE numberedName

\* a loop that numbers the name of the round before, not the desired name
handleCollisionsCumulative(desiredPath, existing) ==
    LET RECURSIVE loop(_, _)
        loop(finalPath, counter) ==
            IF finalPath \in existing
            THEN loop(NumberedPath(finalPath, counter), counter + 1)
            ELSE finalPath
    IN  loop(desiredPath, 1)

\* existing is what getAbstractFileByPath finds
handleCollisions(desiredPath, existing) ==
    LET RECURSIVE loop(_, _)
        loop(finalPath, counter) ==
            IF finalPath \in existing
            THEN loop(NumberedPath(desiredPath, counter), counter + 1)
            ELSE finalPath
    IN  loop(desiredPath, 1)

\* organizeNote did nothing to the vault and returned result
NoMove(file, result, notice) ==
    [result |-> result, notice |-> notice, fullNewPath |-> <<>>, created |-> <<>>,
     finalPath |-> <<>>, renamed |-> FALSE, path |-> file]

\* vault.rename(file, finalPath) and the answer of organizeNote.  The host
\* files the note under stored; it throws when that path is taken.
renameNote(file, host, fullNewPath, ensured, existing, finalPath) ==
    LET stored == IF host.normalizes THEN NormalizePath(finalPath) ELSE finalPath
    IN  IF file = fullNewPath
        THEN [NoMove(file, TRUE, "Note is already in the correct location")
                  EXCEPT !.fullNewPath = fullNewPath]
        ELSE IF ensured.threw
             THEN [result |-> FALSE, notice |-> "error", fullNewPath |-> fullNewPath,
                   created |-> ensured.created, finalPath |-> <<>>,
                   renamed |-> FALSE, path |-> file]
        ELSE IF stored \in existing
             THEN [result |-> FALSE, notice |-> "error", fullNewPath |-> fullNewPath,
                   created |-> ensured.created, finalPath |-> finalPath,
                   renamed |-> FALSE, path |-> file]
        ELSE [result |-> TRUE, notice |-> "Note organized", fullNewPath |-> fullNewPath,
              created |-> ensured.created, finalPath |-> finalPath,
              renamed |-> TRUE, path |-> stored]

\* the steps of organizeNote from fullNewPath on: ensured is the answer of
\* ensurePathExists(newPath), and handleCollisions sees the folders it made
moveNote(file, host, fullNewPath, ensured, vaultFolders, vaultFiles) ==
    LET existing == vaultFolders \cup vaultFiles
                        \cup {ensured.created[i] : i \in 1..Len(ensured.created)}
    IN  renameNote(file, host, fullNewPath, ensured, existing,
                   handleCollisions(fullNewPath, existing))

\* the steps of organizeNote for the ruleset of the evaluation
organizeByRuleset(file, fm, ruleset, vaultFolders, vaultFiles, host, tz) ==
    LET newTitle == IF ruleset.title # <<>>
                    THEN sanitizeForFilename(
                             processPlaceholders(ruleset.title, fm.map, NoFile, tz))
                    ELSE FileBasename(file)
        newPath == IF ruleset.path # <<>>
                   THEN sanitizeForPath(
                            processPlaceholders(ruleset.path, fm.map, NoFile, tz))
                   ELSE ParentPath(file, host)
    IN  CHOOSE answer \in
            {moveNote(file, host, dir \o <<"/">> \o newTitle \o SMd,
                      ensurePathExists(dir, vaultFolders, vaultFiles),
                      vaultFolders, vaultFiles) : dir \in {newPath}} : TRUE

\* the tests organizeNote makes on the evaluation eval of the metadata
organizeEvaluated(file, fm, eval, rulesets, vaultFolders, vaultFiles, host, tz) ==
    IF ~eval.matches \/ eval.ruleset = NoRuleset
    THEN NoMove(file, FALSE, "No matching ruleset found for this note")
    ELSE IF ~eval.isComplete
         THEN NoMove(file, FALSE, "Cannot organize: Missing required fields")
         ELSE organizeByRuleset(file, fm, rulesets[eval.ruleset], vaultFolders, vaultFiles,
                                host, tz)

\* an organizeNote that does not test isComplete
organizeNoteIncomplete(file, fm, rulesets, vaultFolders, vaultFiles, host, tz) ==
    IF fm.kind # "object" THEN NoMove(file, FALSE, "No frontmatter found in this note")
    ELSE organizeEvaluated(file, fm,
                           [evaluateMetadata(fm, rulesets) EXCEPT !.isComplete = TRUE],
                           rulesets, vaultFolders, vaultFiles, host, tz)

\* file is file.path.  The answer holds the return value, the folders
\* created, the path handed to vault.rename and the path of the note after
\* the call; an exception is caught and makes the return value false.
organizeNote(file, fm, rulesets, vaultFolders, vaultFiles, host, tz) ==
    IF fm.kind # "object" THEN NoMove(file, FALSE, "No frontmatter found in this note")
    ELSE organizeEvaluated(file, fm, evaluateMetadata(fm, rulesets), rulesets,
                           vaultFolders, vaultFiles, host, tz)

checkIfNoteIsOrganized(file, fm, rulesets, host, tz) ==
    IF fm.kind # "object" THEN FALSE
    ELSE LET eval == evaluateMetadata(fm, rulesets)
         IN  IF ~eval.matches \/ eval.ruleset = NoRuleset \/ ~eval.isComplete THEN FALSE
             ELSE LET ruleset == rulesets[eval.ruleset]
                      expectedTitle == IF ruleset.title # <<>>
                                       THEN sanitizeForFilename(
                                                processPlaceholders(ruleset.title, fm.map, NoFile, tz))
                                       ELSE FileBasename(file)
                      expectedPath == IF ruleset.path # <<>>
                                      THEN sanitizeForPath(
                                               processPlaceholders(ruleset.path, fm.map, NoFile, tz))
                                      ELSE ParentPath(file, host)
                      expectedFullPath == expectedPath \o <<"/">> \o expectedTitle \o SMd
                  IN  file = expectedFullPath

(***************************************************************************)
(* The organizer on one note of a vault.                                   *)
(*   notePath   file.path of the note                                      *)
(*   folders    the folder paths of the vault                              *)
(*   files      the file paths of the vault, the note's among them         *)
(*   vaultLog   the createFolder and rename calls made, in order           *)
(*   outcome    the answers of the organizer's calls, in order             *)
(*   call       the time zone and the host the plugin runs on              *)
(***************************************************************************)
SNote == <<"n", ".", "m", "d">>

SInbox == <<"I", "n", "b", "o", "x">>

SAreas == <<"A", "r", "e", "a", "s">>

\* the k-th numbered variant of n.md in Notes, the name itself for k = 0
NotesVariant(k) ==
    PathNotes \o <<"/", "n">> \o (IF k = 0 THEN <<>> ELSE <<" ">> \o NatToString(k)) \o SMd

SWork == SAreas \o <<"/", "W", "o", "r", "k">>

SO3s == SWork \o <<"/", "O", "3", "s">>

\* the folder and the note of an earlier meeting of Alice and Bob
SAliceBob == SO3s \o <<"/">> \o SAlice \o <<",", " ">> \o SBob

SEarlierNote ==
    SAliceBob \o <<"/">> \o SAlice \o <<",", " ">> \o SBob
        \o <<" ", "O", "3", " ", "-", " ">> \o SDate \o <<" ", "1", "2">> \o SMd

Vault(path, vaultFolders, otherFiles) ==
    [path |-> path, folders |-> vaultFolders, files |-> otherFiles \cup {path}]

\* every file and folder of a vault lies in a folder of the vault
Vaults ==
    {Vault(SNote, {}, {}),
     Vault(SNote, {PathNotes}, {NotesVariant(1)}),
     Vault(SNote, {}, {PathNotes}),
     Vault(SNote, {SAreas}, {SWork}),
     Vault(SNote, {SAreas, SWork, SO3s, SAliceBob}, {SEarlierNote}),
     Vault(NotesVariant(0), {PathNotes}, {}),
     Vault(SInbox \o <<"/">> \o SNote, {SInbox, PathNotes}, {NotesVariant(0)})}
        \cup {Vault(SNote, {PathNotes}, {NotesVariant(i) : i \in 0..k}) : k \in 0..MaxVariants}

Hosts == [rootPath : {<<"/">>, <<>>}, normalizes : BOOLEAN]

NoteOf(type, attendees, date) ==
    [kind |-> "object",
     map |-> [k \in Keys |-> CASE k = "type" -> type [] k = "attendees" -> attendees
                               [] OTHER -> date]]

OrganizerFrontmatters ==
    {NoFrontmatter, InvalidFrontmatter,
     NoteOf(Str(SO3), Arr(<<Str(SAlice), Str(SBob)>>), Str(SDate)),
     NoteOf(Str(SO3), Arr(<<Str(SAlice)>>), Str(SDate)),
     NoteOf(Str(SO3), Arr(<<Str(SAlice)>>), Undefined),
     NoteOf(Str(SO3), Arr(<<Str(<<>>)>>), Str(SDate)),
     NoteOf(Str(SO3), Null, Str(SBlank)),
     NoteOf(Str(SX), Str(SX), Str(SDate)),
     NoteOf(Str(SX), Num(5), Undefined),
     NoteOf(Bool(FALSE), Str(SX), Str(SDate)),
     NoteOf(Undefined, Undefined, Str(SBlank)),
     NoteOf(Undefined, Undefined, Undefined)}

\* the templates of the default ruleset with "Do not change" chosen for the
\* title and automatic moves switched off in the settings tab
RulesetManual ==
    [name |-> "Manual",
     metadata_match |-> <<Cond("type", Str(SO3))>>,
     metadata |-> <<>>,
     title |-> TitleO3, path |-> PathO3,
     autoTitleMode |-> "never", enableAutoMove |-> FALSE]

\* the settings of the vault: one ruleset or none, or the default ruleset
\* followed by the rulesets the user has added
OrganizerSettings ==
    {rs \in RulesetLists : Len(rs) >= 2 => rs[1] = DefaultRuleset} \cup {<<RulesetManual>>}

OrganizeInit ==
    /\ settings \in OrganizerSettings
    /\ enableWarnings = TRUE
    /\ frontmatter \in OrganizerFrontmatters
    /\ pending = FALSE
    /\ evaluation = NoMatchResult
    /\ alert = NoAlert
    /\ writes = 0
    /\ populatedFor = {}
    /\ call \in [op : {"organizer"}, tz : TimeZones, host : Hosts]
    /\ ret = [op |-> "none"]
    /\ \E v \in Vaults : notePath = v.path /\ folders = v.folders /\ files = v.files
    /\ vaultLog = <<>>
    /\ outcome = <<>>

Organizes == Cardinality({i \in 1..Len(outcome) : outcome[i].op # "checkIfNoteIsOrganized"})

\* the vault after the createFolder and rename calls of one organizeNote
Organized(answer, op) ==
    /\ folders' = folders \cup {answer.created[i] : i \in 1..Len(answer.created)}
    /\ files' = IF answer.renamed THEN (files \ {notePath}) \cup {answer.path} ELSE files
    /\ notePath' = answer.path
    /\ vaultLog' = vaultLog
                     \o [i \in 1..Len(answer.created) |->
                            [op |-> "createFolder", path |-> answer.created[i], to |-> <<>>]]
                     \o (IF answer.renamed
                         THEN <<[op |-> "rename", path |-> notePath, to |-> answer.finalPath]>>
                         ELSE <<>>)
    /\ outcome' = Append(outcome, [op |-> op, offered |-> TRUE, answer |-> answer,
                                   before |-> [path |-> notePath, folders |-> folders,
                                               files |-> files]])

\* organizeNote, called by the button of the alert
OrganizeNote ==
    /\ call.op = "organizer"
    /\ Organizes < MaxOrganizes
    /\ \E answer \in {organizeNote(notePath, frontmatter, settings, folders, files,
                                   call.host, call.tz)} :
           Organized(answer, "organizeNote")
    /\ UNCHANGED <<settings, enableWarnings, frontmatter, pending, evaluation, alert, writes,
                   populatedFor, callVars>>

\* the organize-note command: its checkCallback offers the command, and
\* running it calls organizeNote
OrganizeCommand ==
    /\ call.op = "organizer"
    /\ Organizes < MaxOrganizes
    /\ \E eval \in {evaluateMetadata(frontmatter, settings)} :
          IF eval.matches /\ eval.isComplete
          THEN \E answer \in {organizeNote(notePath, frontmatter, settings, folders, files,
                                           call.host, call.tz)} :
                   Organized(answer, "organize-note")
          ELSE /\ outcome' = Append(outcome, [op |-> "organize-note", offered |-> FALSE,
                                              answer |-> NoMove(notePath, FALSE, "none"),
                                              before |-> [path |-> notePath, folders |-> folders,
                                                          files |-> files]])
               /\ UNCHANGED <<notePath, folders, files, vaultLog>>
    /\ UNCHANGED <<settings, enableWarnings, frontmatter, pending, evaluation, alert, writes,
                   populatedFor, callVars>>

\* checkIfNoteIsOrganized, asked after a call of organizeNote
CheckIfNoteIsOrganized ==
    /\ call.op = "organizer"
    /\ outcome # <<>>
    /\ outcome[Len(outcome)].op # "checkIfNoteIsOrganized"
    /\ outcome' = Append(outcome,
                         [op |-> "checkIfNoteIsOrganized",
                          result |-> checkIfNoteIsOrganized(notePath, frontmatter, settings,
                                                            call.host, call.tz)])
    /\ UNCHANGED <<settings, enableWarnings, frontmatter, pending, evaluation, alert, writes,
                   populatedFor, callVars, notePath, folders, files, vaultLog>>

OrganizeNext == OrganizeNote \/ OrganizeCommand \/ CheckIfNoteIsOrganized

OrganizeSpec == OrganizeInit /\ [][OrganizeNext]_vars

(***************************************************************************)
(* Placeholder markers (the editor extension of unnamed/part_008).  A view *)
(* is the document text, the code nodes of the host's syntax tree and the  *)
(* main selection; offsets count from 0 as in the editor.                  *)
(***************************************************************************)
\* tokens of a scanned document
MaxTokens == 7

\* code nodes of the syntax tree of one document
MaxRegions == 1

\* tokens of a navigated document
MaxNavTokens == 4

\* navigation commands in a row
MaxNavigations == 3

NewLine == "\n"

\* the characters \w matches among those of the documents
WordChars == {"a", "b", "_"}

SOpen == <<"<", "[">>

SClose == <<"]", ">">>

SFence == <<BackTick, BackTick, BackTick>>

\* s.startsWith(pat) at the 0-based index i
StartsWithAt(s, pat, i) ==
    i + Len(pat) <= Len(s) /\ SubSeq(s, i + 1, i + Len(pat)) = pat

\* s.indexOf(pat, pos): a 0-based index, or -1
IndexOfFrom(s, pat, pos) ==
    LET hits == {i \in pos..(Len(s) - Len(pat)) : StartsWithAt(s, pat, i)}
    IN  IF hits = {} THEN 0 - 1 ELSE CHOOSE i \in hits : \A j \in hits : i <= j

\* the length of the run of \w characters of s from the 0-based index i
RECURSIVE WordRun(_, _)
WordRun(s, i) ==
    IF i < Len(s) /\ s[i + 1] \in WordChars THEN 1 + WordRun(s, i + 1) ELSE 0

\* the length of the match of <\[(\w+)\]> that starts at index i, 0 for none
MatchLength(s, i) ==
    IF ~StartsWithAt(s, SOpen, i) THEN 0
    ELSE LET run == WordRun(s, i + 2)
         IN  IF run >= 1 /\ StartsWithAt(s, SClose, i + 2 + run) THEN run + 4 ELSE 0

\* the matches of the successive MARKER_REGEX.exec(lineText) calls from
\* lastIndex on: match.index and the length of match[0]
RECURSIVE ExecAll(_, _)
ExecAll(lineText, lastIndex) ==
    IF lastIndex >= Len(lineText) THEN <<>>
    ELSE LET length == MatchLength(lineText, lastIndex)
         IN  IF length > 0
             THEN <<[index |-> lastIndex, length |-> length]>>
                      \o ExecAll(lineText, lastIndex + length)
             ELSE ExecAll(lineText, lastIndex + 1)

\* doc.line(i) for i in 1..doc.lines: from, to and text
DocLines(doc) ==
    LET texts == Split(doc, NewLine)
        RECURSIVE From(_)
        From(i) == IF i = 1 THEN 0 ELSE From(i - 1) + Len(texts[i - 1]) + 1
    IN  [i \in 1..Len(texts) |->
            [from |-> From(i), to |-> From(i) + Len(texts[i]), text |-> texts[i]]]

\* doc.lineAt(pos)
LineAt(doc, pos) ==
    LET lines == DocLines(doc)
    IN  lines[CHOOSE i \in 1..Len(lines) : lines[i].from <= pos /\ pos <= lines[i].to]

\* tree.resolveInner(pos) enters the nodes that extend to both sides of
\* pos; code holds the code nodes of the tree (fenced, indented, inline)
isInsideCodeBlock(view, pos) ==
    \/ \E node \in view.code : node.from < pos /\ pos < node.to
    \/ StartsWithAt(Trim(LineAt(view.doc, pos).text), SFence, 0)

\* the loop that counts the "<[" of beforeMarker not yet closed by a "]>";
\* it ends at the first position with no "<[" after it
RECURSIVE OpenCount(_, _, _)
OpenCount(beforeMarker, pos, openCount) ==
    IF pos >= Len(beforeMarker) THEN openCount
    ELSE LET openIndex == IndexOfFrom(beforeMarker, SOpen, pos)
             closeIndex == IndexOfFrom(beforeMarker, SClose, pos)
         IN  IF openIndex = 0 - 1 THEN openCount
             ELSE IF closeIndex = 0 - 1 \/ openIndex < closeIndex
                  THEN OpenCount(beforeMarker, openIndex + 2, openCount + 1)
                  ELSE OpenCount(beforeMarker, closeIndex + 2,
                                 IF openCount > 0 THEN openCount - 1 ELSE openCount)

\* the markers pushed for one line
LineMarkers(line) ==
    LET matches == ExecAll(line.text, 0)
        Innermost(match) == OpenCount(SubSeq(line.text, 1, match.index), 0, 0) = 0
        Marker(match) ==
            [from |-> line.from + match.index,
             to |-> line.from + match.index + match.length,
             content |-> SubSeq(line.text, match.index + 3, match.index + match.length - 2),
             fullText |-> SubSeq(line.text, match.index + 1, match.index + match.length)]
        kept == SelectSeq(matches, Innermost)
    IN  [i \in 1..Len(kept) |-> Marker(kept[i])]

\* markers.sort((a, b) => a.from - b.from), a stable sort
RECURSIVE SortByFrom(_)
SortByFrom(markers) ==
    IF markers = <<>> THEN <<>>
    ELSE LET rest == SortByFrom(SubSeq(markers, 1, Len(markers) - 1))
             last == markers[Len(markers)]
             Before(m) == m.from <= last.from
             After(m) == m.from > last.from
         IN  SelectSeq(rest, Before) \o <<last>> \o SelectSeq(rest, After)

RECURSIVE MarkersOfLines(_, _, _)
MarkersOfLines(view, lines, i) ==
    IF i > Len(lines) THEN <<>>
    ELSE (IF isInsideCodeBlock(view, lines[i].from) THEN <<>> ELSE LineMarkers(lines[i]))
             \o MarkersOfLines(view, lines, i + 1)

findAllMarkers(view) == SortByFrom(MarkersOfLines(view, DocLines(view.doc), 1))

\* a search that stays at the far end when it finds no marker
targetIndexNoWrap(markers, currentSelection, direction) ==
    IF direction = "next"
    THEN LET found == {i \in 1..Len(markers) : markers[i].from > currentSelection.to}
         IN  IF found = {} THEN Len(markers) ELSE CHOOSE i \in found : \A j \in found : i <= j
    ELSE LET found == {i \in 1..Len(markers) : markers[i].to < currentSelection.from}
         IN  IF found = {} THEN 1 ELSE CHOOSE i \in found : \A j \in found : i >= j

\* the index in markers (from 1) that the command selects
targetIndex(markers, currentSelection, direction) ==
    IF direction = "next"
    THEN LET found == {i \in 1..Len(markers) : markers[i].from > currentSelection.to}
         IN  IF found = {} THEN 1 ELSE CHOOSE i \in found : \A j \in found : i <= j
    ELSE LET found == {i \in 1..Len(markers) : markers[i].to < currentSelection.from}
         IN  IF found = {} THEN Len(markers) ELSE CHOOSE i \in found : \A j \in found : i >= j

\* the answer, the marker list and the main selection after the call
navigateToMarker(view, direction) ==
    \* bound once: the list is used at several places
    CHOOSE answer \in
        {IF Len(markers) = 0
         THEN [result |-> FALSE, markers |-> markers, selection |-> view.selection]
         ELSE [result |-> TRUE, markers |-> markers,
               selection |->
                   [from |-> markers[targetIndex(markers, view.selection, direction)].from,
                    to |-> markers[targetIndex(markers, view.selection, direction)].to]]
             : markers \in {findAllMarkers(view)}} : TRUE

(***************************************************************************)
(* The scanner on one document.  call holds the view, ret the markers.     *)
(***************************************************************************)
ScanTokens == {SOpen, SClose, <<"a">>, <<BackTick>>, <<NewLine>>}

TokenLists(tokens, n) == UNION {[1..k -> tokens] : k \in 0..n}

RECURSIVE Flatten(_)
Flatten(list) == IF list = <<>> THEN <<>> ELSE Head(list) \o Flatten(Tail(list))

ScanDocs == {Flatten(list) : list \in TokenLists(ScanTokens, MaxTokens)}

\* the code nodes a syntax tree of doc can hold: an inline code span runs
\* from a grave accent to the next one, a fenced block from the start of a
\* fence line to the end of a later fence line or of the document
CodeNodes(doc) ==
    LET lines == DocLines(doc)
        fences == {i \in 1..Len(lines) : StartsWithAt(Trim(lines[i].text), SFence, 0)}
        ticks == {i \in 0..(Len(doc) - 1) : doc[i + 1] = BackTick}
    IN  UNION {{[from |-> i, to |-> j + 1]
                   : j \in {k \in ticks : k >= i + 2 /\ \A m \in ticks : ~(i < m /\ m < k)}}
               : i \in ticks}
        \cup {[from |-> lines[i].from, to |-> Len(doc)] : i \in fences}
        \cup UNION {{[from |-> lines[i].from, to |-> lines[j].to]
                        : j \in {k \in fences : k > i}} : i \in fences}

SyntaxTrees(doc) == {code \in SUBSET CodeNodes(doc) : Cardinality(code) <= MaxRegions}

NoSelection == [from |-> 0, to |-> 0]

ScanInit ==
    /\ EnforcerIdle
    /\ NoVault
    /\ \E doc \in ScanDocs : \E code \in SyntaxTrees(doc) :
           call = [op |-> "scan", doc |-> doc, code |-> code, selection |-> NoSelection]
    /\ ret = [op |-> "none"]

CallFindAllMarkers ==
    /\ call.op = "scan"
    /\ ret.op = "none"
    /\ ret' = [op |-> "findAllMarkers", markers |-> findAllMarkers(call)]
    /\ UNCHANGED <<settings, enableWarnings, frontmatter, pending, evaluation, alert, writes,
                   populatedFor, call, vaultVars>>

ScanNext == CallFindAllMarkers

ScanSpec == ScanInit /\ [][ScanNext]_vars

(***************************************************************************)
(* The two navigation commands on one document.  call holds the document   *)
(* and the selection the user starts from; ret holds the main selection of *)
(* the editor and the answers of the commands run so far.                  *)
(***************************************************************************)
SMarker == <<"<", "[", "a", "]", ">">>

NavTokens == {SMarker, <<"a">>, <<NewLine>>}

\* markers at [5,10) and [20,25) in a document of 30 characters
SNavExample ==
    <<"a", "a", "a", "a", "a">> \o SMarker \o <<"a", "a", "a", "a", NewLine>>
        \o <<"a", "a", "a", "a", "a">> \o SMarker \o <<"a", "a", "a", "a", "a">>

NavDocs == {Flatten(list) : list \in TokenLists(NavTokens, MaxNavTokens)} \cup {SNavExample}

Selections(doc) == {s \in [from : 0..Len(doc), to : 0..Len(doc)] : s.from <= s.to}

NavigateInit ==
    /\ EnforcerIdle
    /\ NoVault
    /\ \E doc \in NavDocs : \E selection \in Selections(doc) :
           /\ call = [op |-> "navigate", doc |-> doc, code |-> {}, selection |-> selection]
           /\ ret = [op |-> "navigate", selection |-> selection, log |-> <<>>]

\* the view the command gets: the document with the editor's main selection
ViewNow == [call EXCEPT !.selection = ret.selection]

Navigate(direction) ==
    /\ call.op = "navigate"
    /\ Len(ret.log) < MaxNavigations
    /\ \E answer \in {navigateToMarker(ViewNow, direction)} :
           ret' = [ret EXCEPT !.selection = answer.selection,
                              !.log = Append(@, [direction |-> direction,
                                                 before |-> ret.selection,
                                                 success |-> answer.result,
                                                 markers |-> answer.markers,
                                                 selection |-> answer.selection])]
    /\ UNCHANGED <<settings, enableWarnings, frontmatter, pending, evaluation, alert, writes,
                   populatedFor, call, vaultVars>>

\* command go-to-next-placeholder-marker
GoToNextMarker == Navigate("next")

\* command go-to-previous-placeholder-marker
GoToPreviousMarker == Navigate("prev")

NavigateNext == GoToNextMarker \/ GoToPreviousMarker

NavigateSpec == NavigateInit /\ [][NavigateNext]_vars

(***************************************************************************)
(* The two sanitizers on one text.                                         *)
(***************************************************************************)
\* characters of a sanitized text
MaxChars == 5

ForbiddenChars == {"<", ">", ":", "\"", "/", "\\", "|", "?", "*"}

SanitizeChars == {"a", " ", "\t", "/", ":", "*"}

\* every text over SanitizeChars, and each forbidden character inside a word
SanitizeTexts ==
    UNION {[1..n -> SanitizeChars] : n \in 0..MaxChars}
        \cup {<<"a", c, "a">> : c \in ForbiddenChars}

SanitizeInit ==
    /\ EnforcerIdle
    /\ NoVault
    /\ call \in [op : {"sanitize"}, text : SanitizeTexts]
    /\ ret = [op |-> "none"]

\* newTitle = sanitizeForFilename(newTitle), and the same call on its result
CallSanitizeForFilename ==
    /\ call.op = "sanitize"
    /\ ret.op = "none"
    /\ \E once \in {sanitizeForFilename(call.text)} :
           ret' = [op |-> "sanitizeForFilename", once |-> once,
                   twice |-> sanitizeForFilename(once)]
    /\ UNCHANGED <<settings, enableWarnings, frontmatter, pending, evaluation, alert, writes,
                   populatedFor, call, vaultVars>>

\* newPath = sanitizeForPath(newPath), and the same call on its result
CallSanitizeForPath ==
    /\ call.op = "sanitize"
    /\ ret.op = "none"
    /\ \E once \in {sanitizeForPath(call.text)} :
           ret' = [op |-> "sanitizeForPath", once |-> once, twice |-> sanitizeForPath(once)]
    /\ UNCHANGED <<settings, enableWarnings, frontmatter, pending, evaluation, alert, writes,
                   populatedFor, call, vaultVars>>

SanitizeNext == CallSanitizeForFilename \/ CallSanitizeForPath

SanitizeSpec == SanitizeInit /\ [][SanitizeNext]_vars

(***************************************************************************)
(* MetaflyerSidebar: the search of the active note.                        *)
(***************************************************************************)
\* active-leaf-change events handled in one run
MaxLeafChanges == 3

NoActiveFile == "null"

NoteNames == {"A.md", "B.md"}

ResultFiles == {"r1.md", "r2.md"}

\* the task lines of a result file that the regex of extractRegexMatches
\* matches, in the order of the file; one line is shared by both files
CheckboxLines(path) ==
    IF path = "r1.md" THEN <<"- [ ] one", "- [x] both">> ELSE <<"- [ ] two", "- [x] both">>

\* what searchWithCriteria finds for a note: the matching files, most recent first
FoundLists ==
    {<<>>, <<"r1.md">>, <<"r2.md">>, <<"r1.md", "r2.md">>, <<"r2.md", "r1.md">>}

\* a note as performSearch sees it: its cached frontmatter, whether a ruleset
\* matches it, and the search_criteria and search_result_count of that ruleset
\* (<<>> when the count is undefined, <<n>> when it is the number n)
NoteConfigs ==
    [frontmatter : {FALSE}, matches : {FALSE}, search_criteria : {FALSE},
     search_result_count : {<<>>}, found : {<<>>}]
        \cup [frontmatter : {TRUE}, matches : {FALSE}, search_criteria : {FALSE},
              search_result_count : {<<>>}, found : {<<>>}]
        \cup [frontmatter : {TRUE}, matches : {TRUE}, search_criteria : {FALSE},
              search_result_count : {<<>>}, found : {<<>>}]
        \cup [frontmatter : {TRUE}, matches : {TRUE}, search_criteria : {TRUE},
              search_result_count : {<<>>, <<0>>, <<1>>}, found : FoundLists]

needsSearch(note) ==
    /\ note.search_criteria
    /\ \/ note.search_result_count = <<>>
       \/ note.search_result_count[1] > 0

\* allResults.slice(0, maxResults)
Slice(list, maxResults) ==
    IF Len(list) <= maxResults THEN list ELSE SubSeq(list, 1, maxResults)

LimitResults(note) ==
    IF note.search_result_count = <<>>
    THEN note.found
    ELSE Slice(note.found, note.search_result_count[1])

\* the while loop of extractRegexMatches over one file: every matched line
\* that this.regexMatches does not hold yet is pushed
RECURSIVE PushMatches(_, _, _)
PushMatches(regexMatches, lines, i) ==
    IF i > Len(lines)
    THEN regexMatches
    ELSE PushMatches(IF \E k \in 1..Len(regexMatches) : regexMatches[k] = lines[i]
                     THEN regexMatches
                     ELSE Append(regexMatches, lines[i]),
                     lines, i + 1)

\* what render() puts into the view from the fields of the sidebar
render(vault, view) ==
    IF view.currentFile = NoActiveFile
    THEN [file |-> NoActiveFile, results |-> <<>>, matches |-> <<>>]
    ELSE IF ~vault[view.currentFile].matches
         THEN [file |-> view.currentFile, results |-> <<>>, matches |-> <<>>]
         ELSE [file |-> view.currentFile,
               results |-> IF needsSearch(vault[view.currentFile])
                           THEN view.searchResults ELSE <<>>,
               matches |-> view.regexMatches]

Rendered(vault, view) == [view EXCEPT !.rendered = render(vault, view)]

\* performSearch up to its first vault.read: searchWithCriteria awaits
\* nothing, so the assignment of searchResults and the start of
\* extractRegexMatches follow before any other event is handled
performSearch(vault, view) ==
    IF view.currentFile = NoActiveFile
    THEN Rendered(vault, [view EXCEPT !.searchResults = <<>>])
    ELSE IF ~vault[view.currentFile].frontmatter \/ ~vault[view.currentFile].matches
         THEN Rendered(vault, [view EXCEPT !.searchResults = <<>>])
         ELSE IF ~needsSearch(vault[view.currentFile])
              THEN [Rendered(vault, [view EXCEPT !.searchResults = <<>>])
                       EXCEPT !.regexMatches = <<>>]
              ELSE IF LimitResults(vault[view.currentFile]) = <<>>
                   THEN Rendered(vault, [view EXCEPT !.searchResults = <<>>,
                                                     !.regexMatches = <<>>])
                   ELSE [view EXCEPT
                            !.searchResults = LimitResults(vault[view.currentFile]),
                            !.regexMatches = <<>>,
                            !.reading = Append(@,
                                [file |-> view.currentFile,
                                 results |-> LimitResults(vault[view.currentFile]),
                                 i |-> 1])]

updateForActiveFile(vault, view, activeFile, ownViewActive) ==
    IF ownViewActive
    THEN view
    ELSE IF activeFile \in NoteNames
         THEN IF view.currentFile = activeFile
              THEN view
              ELSE performSearch(vault, [view EXCEPT !.currentFile = activeFile,
                                                     !.regexMatches = <<>>])
         ELSE Rendered(vault, [view EXCEPT !.currentFile = NoActiveFile,
                                           !.searchResults = <<>>,
                                           !.regexMatches = <<>>])

RemoveAt(list, k) == SubSeq(list, 1, k - 1) \o SubSeq(list, k + 1, Len(list))

\* a pending vault.read of extractRegexMatches resolves: the lines of the
\* file are pushed to this.regexMatches, then the next file is read or,
\* after the last file, performSearch renders
readResolved(vault, view, k) ==
    IF view.reading[k].i < Len(view.reading[k].results)
    THEN [view EXCEPT
             !.regexMatches = PushMatches(@,
                 CheckboxLines(view.reading[k].results[view.reading[k].i]), 1),
             !.reading[k].i = @ + 1]
    ELSE Rendered(vault,
             [view EXCEPT
                 !.regexMatches = PushMatches(@,
                     CheckboxLines(view.reading[k].results[view.reading[k].i]), 1),
                 !.reading = RemoveAt(@, k)])

\* onOpen: the fields as declared, before the initial load
SidebarInit ==
    /\ EnforcerIdle
    /\ NoVault
    /\ call \in [op : {"sidebar"}, vault : [NoteNames -> NoteConfigs]]
    /\ ret = [op |-> "sidebar", changes |-> 0, currentFile |-> NoActiveFile,
              searchResults |-> <<>>, regexMatches |-> <<>>, reading |-> <<>>,
              rendered |-> [file |-> NoActiveFile, results |-> <<>>, matches |-> <<>>]]

\* the workspace reports an active-leaf-change (or onOpen's initial load)
SidebarLeafChange ==
    /\ call.op = "sidebar"
    /\ ret.changes < MaxLeafChanges
    /\ \E activeFile \in NoteNames \cup {NoActiveFile}, ownViewActive \in BOOLEAN :
           ret' = [updateForActiveFile(call.vault, ret, activeFile, ownViewActive)
                      EXCEPT !.changes = ret.changes + 1]
    /\ UNCHANGED <<settings, enableWarnings, frontmatter, pending, evaluation, alert, writes,
                   populatedFor, call, vaultVars>>

\* the vault delivers the content of a file one of the searches waits for
VaultReadResolves ==
    /\ call.op = "sidebar"
    /\ \E k \in 1..Len(ret.reading) : ret' = readResolved(call.vault, ret, k)
    /\ UNCHANGED <<settings, enableWarnings, frontmatter, pending, evaluation, alert, writes,
                   populatedFor, call, vaultVars>>

SidebarNext == SidebarLeafChange \/ VaultReadResolves

SidebarSpec == SidebarInit /\ [][SidebarNext]_vars

(***************************************************************************)
(* RulesetManager called on argument objects: the frontmatter object of    *)
(* the caller and settings.rulesets are held by reference, so a write      *)
(* through an argument would be seen by the caller.                        *)
(***************************************************************************)
\* calls of the manager in one run
MaxManagerCalls == 3

\* the objects of a run: the caller's frontmatter, and the object that
\* autoPopulateMetadata creates
NoObject == [kind |-> "none", map |-> EmptyMap]

\* const populated = frontmatter: no new object, the argument itself
SpreadAlias(heap, source) == [ref |-> source, heap |-> heap]

\* const populated = { ...frontmatter }: a new object with the own
\* properties of the argument
SpreadCopy(heap, source) ==
    [ref |-> "populated",
     heap |-> [heap EXCEPT !["populated"] = [kind |-> "object", map |-> heap[source].map]]]

\* autoPopulateMetadata(frontmatter, ruleset) on the objects of the heap:
\* every assignment populated[field.name] = ... goes to the object that
\* populated refers to
autoPopulateObject(heap, source, ruleset, now) ==
    LET populated == SpreadCopy(heap, source)
    IN  [ref |-> populated.ref,
         heap |-> [populated.heap EXCEPT ![populated.ref].map =
                      autoPopulateMetadata(@, ruleset, now)]]

ManagerInit ==
    /\ EnforcerIdle
    /\ NoVault
    /\ \E fm \in UserFrontmatters, rulesets \in RulesetLists :
          /\ fm.kind # "null"
          /\ call = [op |-> "manager", frontmatter |-> fm, rulesets |-> rulesets]
          /\ ret = [op |-> "manager",
                    rulesets |-> rulesets,
                    heap |-> [o \in {"frontmatter", "populated"} |->
                                 IF o = "frontmatter" THEN fm ELSE NoObject],
                    populated |-> "none",
                    results |-> <<>>,
                    log |-> <<>>]

\* rulesetManager.evaluateMetadata(frontmatter)
CallEvaluateMetadata ==
    /\ call.op = "manager"
    /\ Len(ret.log) < MaxManagerCalls
    /\ ret' = [ret EXCEPT
                  !.results = Append(@, evaluateMetadata(ret.heap["frontmatter"], ret.rulesets)),
                  !.log = Append(@, "evaluateMetadata")]
    /\ UNCHANGED <<settings, enableWarnings, frontmatter, pending, evaluation, alert, writes,
                   populatedFor, call, vaultVars>>

\* rulesetManager.autoPopulateMetadata(frontmatter, evaluation.ruleset) with
\* the ruleset of the last evaluation
CallAutoPopulateMetadata ==
    /\ call.op = "manager"
    /\ Len(ret.log) < MaxManagerCalls
    /\ ret.results # <<>>
    /\ ret.results[Len(ret.results)].ruleset # NoRuleset
    /\ \E now \in Clock :
          \E done \in {autoPopulateObject(ret.heap, "frontmatter",
                           ret.rulesets[ret.results[Len(ret.results)].ruleset], now)} :
              ret' = [ret EXCEPT !.heap = done.heap,
                                 !.populated = done.ref,
                                 !.log = Append(@, "autoPopulateMetadata")]
    /\ UNCHANGED <<settings, enableWarnings, frontmatter, pending, evaluation, alert, writes,
                   populatedFor, call, vaultVars>>

ManagerNext == CallEvaluateMetadata \/ CallAutoPopulateMetadata

ManagerSpec == ManagerInit /\ [][ManagerNext]_vars

TypeOK ==
    /\ settings \in RulesetLists
    /\ enableWarnings \in BOOLEAN
    /\ pending \in BOOLEAN
    /\ frontmatter.kind \in {"undefined", "null", "object"}
    /\ writes \in 0..MaxWrites

(***************************************************************************)
(* Properties.                                                             *)
(***************************************************************************)
\* evaluateFile has evaluated the frontmatter object the document holds now
Evaluated == ~pending /\ frontmatter.kind = "object"

\* every metadata_match entry of ruleset i is identical (===) to the value the
\* frontmatter holds under the same key: same type and same primitive value
Qualifies(i) ==
    \A c \in 1..Len(settings[i].metadata_match) :
        LET expected == settings[i].metadata_match[c].value
            actual == frontmatter.map[settings[i].metadata_match[c].key]
        IN  /\ actual.t = expected.t
            /\ actual.t \in {"null", "string", "number", "boolean"}
            /\ actual.s = expected.s /\ actual.n = expected.n /\ actual.b = expected.b

\* C1: evaluateMetadata selects the first ruleset, in declaration order, whose
\* every metadata_match entry is strictly equal to the metadata value of the
\* same key; a ruleset without entries qualifies for every frontmatter object,
\* and no later ruleset is selected when an earlier one qualifies.
C1_FirstQualifyingRuleset ==
    Evaluated =>
        /\ \A i \in 1..Len(settings) :
              (Qualifies(i) /\ \A j \in 1..(i - 1) : ~Qualifies(j)) => evaluation.ruleset = i
        /\ (\A i \in 1..Len(settings) : ~Qualifies(i)) => evaluation.ruleset = NoRuleset
        /\ (\E i \in 1..Len(settings) : settings[i].metadata_match = <<>>)
              => evaluation.ruleset # NoRuleset

\* two rulesets qualify, the second by an empty metadata_match on an empty
\* frontmatter object or otherwise, and the first is selected
C1_Witness ==
    /\ Evaluated
    /\ Len(settings) = 2
    /\ Qualifies(1) /\ Qualifies(2)
    /\ settings[1].metadata_match # <<>>
    /\ evaluation.ruleset = 1

\* the names of the fields of ruleset r that are required and whose value in
\* the frontmatter is empty for the declared type, in declaration order
RequiredEmptyNames(r) ==
    LET IsMissing(f) == f.required /\ isFieldEmpty(frontmatter.map[f.name], f.type)
        missing == SelectSeq(r.metadata, IsMissing)
    IN  [i \in 1..Len(missing) |-> missing[i].name]

\* C2: when a ruleset matches with valid trigger fields, missingFields is
\* exactly the names of its required fields whose value is empty for the
\* declared type, in declaration order; a field that is not required never
\* appears; isComplete is true iff missingFields is empty, so a ruleset
\* without required fields is complete as soon as it matches.
C2_MissingRequiredFields ==
    (Evaluated /\ evaluation.matches) =>
        LET r == settings[evaluation.ruleset]
        IN  /\ evaluation.missingFields = RequiredEmptyNames(r)
            /\ \A j \in 1..Len(r.metadata) :
                  ~r.metadata[j].required =>
                      \A m \in 1..Len(evaluation.missingFields) :
                          evaluation.missingFields[m] # r.metadata[j].name
            /\ evaluation.isComplete <=> (evaluation.missingFields = <<>>)
            /\ (\A j \in 1..Len(r.metadata) : ~r.metadata[j].required) => evaluation.isComplete

\* a match that reports a missing required field while a field that is not
\* required is empty as well and is not reported
C2_Witness ==
    /\ Evaluated /\ evaluation.matches
    /\ Len(evaluation.missingFields) >= 1
    /\ \E j \in 1..Len(settings[evaluation.ruleset].metadata) :
          LET f == settings[evaluation.ruleset].metadata[j]
          IN  ~f.required /\ isFieldEmpty(frontmatter.map[f.name], f.type)

\* the value of a trigger field is empty: missing, null, a blank string, or a
\* list without a non-blank item
EmptyTriggerValue(v) ==
    \/ v.t \in {"undefined", "null"}
    \/ v.t = "string" /\ \A i \in 1..Len(v.s) : v.s[i] \in WhiteSpace
    \/ v.t = "array" /\ \A i \in 1..Len(v.l) : BlankItem(v.l[i])

EmptyTriggerNames(r) ==
    LET IsEmpty(c) == EmptyTriggerValue(frontmatter.map[c.key])
        empty == SelectSeq(r.metadata_match, IsEmpty)
    IN  [i \in 1..Len(empty) |-> empty[i].key]

FirstQualifying == CHOOSE i \in 1..Len(settings) : Qualifies(i) /\ \A j \in 1..(i - 1) : ~Qualifies(j)

\* C3: if the first matching ruleset has a trigger field whose metadata value
\* is empty, evaluateMetadata returns matches = false and isComplete = false
\* with that ruleset (not null) and missingFields exactly the names of the
\* empty trigger fields: no required-field name is added, no later ruleset tried.
C3_InvalidTriggerOutcome ==
    (Evaluated /\ \E i \in 1..Len(settings) : Qualifies(i)) =>
        LET r == settings[FirstQualifying]
        IN  EmptyTriggerNames(r) # <<>> =>
                /\ evaluation.ruleset = FirstQualifying
                /\ ~evaluation.matches
                /\ ~evaluation.isComplete
                /\ evaluation.missingFields = EmptyTriggerNames(r)

\* the invalid-trigger outcome with a valid and two empty trigger fields, a
\* later ruleset that would match, and required fields of it that are empty
C3_Witness ==
    /\ Evaluated
    /\ Len(settings) = 2
    /\ Qualifies(1) /\ Qualifies(2)
    /\ evaluation.ruleset = 1 /\ ~evaluation.matches
    /\ Len(evaluation.missingFields) = 2
    /\ Len(settings[1].metadata_match) = 3

\* the user clears key k of the frontmatter: an empty or blank string, null,
\* or the key removed, every other key as it was
ClearsField(k) ==
    /\ frontmatter.kind = "object" /\ frontmatter'.kind = "object"
    /\ frontmatter'.map[k] \in {Undefined, Null, Str(<<>>), Str(SBlank)}
    /\ frontmatter'.map[k] # frontmatter.map[k]
    /\ \A other \in Keys \ {k} : frontmatter'.map[other] = frontmatter.map[other]

\* C4: if the document matched ruleset R and the user then clears a trigger
\* field of R, the next evaluateMetadata reports the invalid-trigger outcome
\* for R (matches = false, ruleset = R, that field in missingFields), not the
\* no-match outcome and not a match of another ruleset.
C4_ClearedTriggerIsInvalidTrigger ==
    [][(Evaluated /\ evaluation.matches) =>
          \A c \in 1..Len(settings[evaluation.ruleset].metadata_match) :
              LET k == settings[evaluation.ruleset].metadata_match[c].key
                  next == evaluateMetadata(frontmatter', settings)
              IN  ClearsField(k) =>
                      /\ next.ruleset = evaluation.ruleset
                      /\ ~next.matches
                      /\ \E m \in 1..Len(next.missingFields) : next.missingFields[m] = k]_vars

\* the three warning alerts, told apart by their wording
IsNoMatchAlert(a) == a = [type |-> "warning", text |-> <<"Properties match no rulesets">>]

IsInvalidTriggerAlert(a, name, fields) ==
    a = [type |-> "warning", text |-> <<name, " - Invalid trigger fields: ">> \o fields]

IsMissingValuesAlert(a, name, fields) ==
    a = [type |-> "warning", text |-> <<name, " - Missing Values: ">> \o fields]

\* C5: the no-match and the invalid-trigger outcome are never conflated.
\* Absent metadata or no qualifying ruleset yields exactly {ruleset: null,
\* matches: false, missingFields: [], isComplete: false}; every result with
\* matches = false and a ruleset has a non-empty missingFields; and with
\* warnings enabled the document in the active view gets a different alert for
\* each of no-match, invalid trigger fields and missing required values.
C5_OutcomesDistinct ==
    /\ frontmatter.kind # "object" =>
          evaluateMetadata(frontmatter, settings) =
              [ruleset |-> 0, matches |-> FALSE, missingFields |-> <<>>, isComplete |-> FALSE]
    /\ (~pending /\ (frontmatter.kind = "undefined"
                     \/ (frontmatter.kind = "object" /\ \A i \in 1..Len(settings) : ~Qualifies(i)))) =>
          evaluation = [ruleset |-> 0, matches |-> FALSE, missingFields |-> <<>>, isComplete |-> FALSE]
    /\ (~evaluation.matches /\ evaluation.ruleset # 0) => Len(evaluation.missingFields) > 0
    /\ (~pending /\ enableWarnings /\ frontmatter.kind # "null") =>
          /\ evaluation.ruleset = 0 =>
                /\ IsNoMatchAlert(alert)
                /\ \A i \in 1..Len(settings) :
                      /\ ~IsInvalidTriggerAlert(alert, settings[i].name, SubSeq(alert.text, 3, Len(alert.text)))
                      /\ ~IsMissingValuesAlert(alert, settings[i].name, SubSeq(alert.text, 3, Len(alert.text)))
          /\ (~evaluation.matches /\ evaluation.ruleset # 0) =>
                /\ IsInvalidTriggerAlert(alert, settings[evaluation.ruleset].name, evaluation.missingFields)
                /\ ~IsNoMatchAlert(alert)
                /\ ~IsMissingValuesAlert(alert, settings[evaluation.ruleset].name, evaluation.missingFields)
          /\ (evaluation.matches /\ ~evaluation.isComplete) =>
                /\ IsMissingValuesAlert(alert, settings[evaluation.ruleset].name, evaluation.missingFields)
                /\ ~IsNoMatchAlert(alert)
                /\ ~IsInvalidTriggerAlert(alert, settings[evaluation.ruleset].name, evaluation.missingFields)

\* the invalid-trigger outcome is shown with its own alert
C5_Witness ==
    /\ ~pending /\ enableWarnings /\ frontmatter.kind = "object"
    /\ ~evaluation.matches /\ evaluation.ruleset # 0
    /\ IsInvalidTriggerAlert(alert, settings[evaluation.ruleset].name, evaluation.missingFields)

\* the local calendar date of every reading of the clock, as YYYY-MM-DD
SToday == <<"2", "0", "2", "6", "-", "1", "1", "-", "0", "3">>

OnlyType == [EmptyMap EXCEPT !["type"] = Str(SO3)]

PopulatedO3 ==
    [EmptyMap EXCEPT !["type"] = Str(SO3), !["attendees"] = Arr(<<>>), !["date"] = Str(SToday)]

\* C6: with the default O3 ruleset, evaluating {type: "O3"} reports
\* matches = true, isComplete = false, missingFields = [attendees, date];
\* auto-population then adds attendees = [] and date = today's formatted date
\* and leaves type unchanged; evaluating the populated metadata reports
\* matches = true, isComplete = false, missingFields = [attendees].
C6_DefaultRulesetScenario ==
    [][(settings = <<DefaultRuleset>> /\ pending /\ frontmatter.kind = "object") =>
          /\ frontmatter.map = OnlyType =>
                /\ evaluation' = [ruleset |-> 1, matches |-> TRUE,
                                  missingFields |-> <<"attendees", "date">>, isComplete |-> FALSE]
                /\ frontmatter' = [kind |-> "object", map |-> PopulatedO3]
                /\ pending'
          /\ frontmatter.map = PopulatedO3 =>
                /\ evaluation' = [ruleset |-> 1, matches |-> TRUE,
                                  missingFields |-> <<"attendees">>, isComplete |-> FALSE]
                /\ frontmatter' = frontmatter
                /\ ~pending']_vars

\* the document of the scenario after its two evaluations
C6_Witness ==
    /\ settings = <<DefaultRuleset>>
    /\ ~pending /\ writes = 1
    /\ frontmatter = [kind |-> "object", map |-> PopulatedO3]
    /\ evaluation.missingFields = <<"attendees">>

\* evaluateFile has just written the auto-populated metadata for the ruleset
\* of its evaluation
JustPopulated == pending /\ writes >= 1 /\ evaluation.ruleset # NoRuleset

HasInk(s) == \E i \in 1..Len(s) : s[i] \notin WhiteSpace

WritesBack == writes' = writes + 1

\* trigger entry c of ruleset r is a key of the frontmatter and holds exactly
\* the matching value
TriggerPresentWithValue(r, c) ==
    LET expected == r.metadata_match[c].value
        actual == frontmatter.map[r.metadata_match[c].key]
    IN  /\ actual.t # "undefined"
        /\ actual.t = expected.t /\ actual.t # "array"
        /\ actual.s = expected.s /\ actual.n = expected.n /\ actual.b = expected.b

RequiredKeyAbsent(r, j) == r.metadata[j].required /\ frontmatter.map[r.metadata[j].name] = Undefined

\* C8: on any evaluation of a file the enforcer auto-populates only if the
\* evaluation matches a ruleset, a trigger field of it is present with exactly
\* the matching value, and a required field of it is absent as a key; when every
\* required key is present, holding empty values or not, evaluateFile does not
\* auto-populate and goes to visual feedback.
C8_AutoPopulateOnlyForAbsentKeys ==
    [][/\ WritesBack =>
            /\ pending /\ frontmatter.kind = "object"
            /\ evaluation'.matches /\ evaluation'.ruleset # NoRuleset
            /\ \E c \in 1..Len(settings[evaluation'.ruleset].metadata_match) :
                  TriggerPresentWithValue(settings[evaluation'.ruleset], c)
            /\ \E j \in 1..Len(settings[evaluation'.ruleset].metadata) :
                  RequiredKeyAbsent(settings[evaluation'.ruleset], j)
       /\ (pending /\ frontmatter.kind = "object") =>
            LET r == evaluateMetadata(frontmatter, settings).ruleset
            IN  (r = NoRuleset \/ \A j \in 1..Len(settings[r].metadata) : ~RequiredKeyAbsent(settings[r], j)) =>
                    /\ ~WritesBack
                    /\ frontmatter' = frontmatter
                    /\ ~pending'
                    /\ \E organized \in BOOLEAN :
                          alert' = updateVisualFeedback(evaluation', settings, enableWarnings, organized)]_vars

\* an evaluation whose ruleset has every required key present, one of them
\* with an empty list, went to visual feedback after an earlier write-back
C8_Witness ==
    /\ ~pending /\ writes = 1 /\ frontmatter.kind = "object"
    /\ evaluation.matches /\ ~evaluation.isComplete
    /\ frontmatter.map["attendees"] = Arr(<<>>)
    /\ IsMissingValuesAlert(alert, settings[evaluation.ruleset].name, evaluation.missingFields)

\* C9: when auto-population runs on a document, every key already present in
\* the metadata keeps its exact value in the mapping autoPopulateMetadata
\* returns, also when that value is empty for its declared type; only keys
\* that were absent are added, and keys the ruleset does not declare are
\* untouched.
C9_PresentKeysKeepTheirValue ==
    [][WritesBack =>
          \A now \in Clock : \A k \in Keys :
              LET r == settings[evaluation'.ruleset]
                  populated == autoPopulateMetadata(frontmatter.map, r, now)
                  declared == \E j \in 1..Len(r.metadata) : r.metadata[j].name = k
              IN  /\ frontmatter.map[k] # Undefined => populated[k] = frontmatter.map[k]
                  /\ ~declared => populated[k] = frontmatter.map[k]]_vars

\* C10: with no user edit in between, the cycle 'evaluate; if auto-population
\* is indicated, write the populated metadata back; the write triggers a new
\* evaluation' performs finitely many writes: no ruleset is populated twice,
\* the metadata written for ruleset R has every required key of R, so it never
\* indicates auto-population for R again, and every due evaluation leads to an
\* evaluation that only updates visual feedback.
C10_WriteCycleEnds ==
    /\ [][WritesBack => evaluation'.ruleset \notin populatedFor]_vars
    /\ [](\A r \in populatedFor :
             /\ frontmatter.kind = "object"
             /\ \A j \in 1..Len(settings[r].metadata) : ~RequiredKeyAbsent(settings[r], j))
    /\ [](writes = Cardinality(populatedFor) /\ writes <= Len(settings))
    /\ (pending ~> ~pending)

\* a cycle of two write-backs, for two rulesets, has ended in visual feedback
C10_Witness ==
    /\ ~pending /\ writes = 2
    /\ Cardinality(populatedFor) = 2
    /\ frontmatter.kind = "object"


(***************************************************************************)
(* Emptiness of a value for a declared type.                               *)
(***************************************************************************)
OnlyWhiteSpace(s) == \A i \in 1..Len(s) : s[i] \in {" ", "\t", "\n"}

BlankElement(e) == e.t \in {"null", "undefined"} \/ (e.t = "string" /\ OnlyWhiteSpace(e.s))

\* C11: for a field of type array a value is empty iff it is null/undefined,
\* not a list, a zero-length list, or a list whose every element is null,
\* undefined or a whitespace-only string, and a list with a non-blank element
\* is non-empty; for the types string and date a value is empty iff it is
\* null/undefined, not a string, or a string that is blank after trimming.
C11_ListTextDateEmptiness ==
    ret.op = "isFieldEmpty" =>
        LET v == call.value
        IN  /\ call.type = "array" =>
                  (ret.empty <=> \/ v.t \in {"null", "undefined"}
                                 \/ v.t # "array"
                                 \/ Len(v.l) = 0
                                 \/ \A i \in 1..Len(v.l) : BlankElement(v.l[i]))
            /\ (call.type = "array" /\ v.t = "array"
                    /\ \E i \in 1..Len(v.l) : ~BlankElement(v.l[i])) => ~ret.empty
            /\ call.type \in {"string", "date"} =>
                  (ret.empty <=> \/ v.t \in {"null", "undefined"}
                                 \/ v.t # "string"
                                 \/ OnlyWhiteSpace(v.s))

\* a list with a blank and a non-blank element has been found non-empty
C11_Witness ==
    /\ ret.op = "isFieldEmpty"
    /\ call.type = "array"
    /\ call.value = Arr(<<Str(SBlank), Str(SAlice)>>)
    /\ ~ret.empty

\* Number(s) is a finite number: a blank string reads as 0, a signed digit
\* string as its value
ConvertsToFiniteNumber(s) ==
    \/ OnlyWhiteSpace(s)
    \/ \E i \in 1..Len(s) : \E j \in i..Len(s) :
          /\ OnlyWhiteSpace(SubSeq(s, 1, i - 1)) /\ OnlyWhiteSpace(SubSeq(s, j + 1, Len(s)))
          /\ \/ \A k \in i..j : s[k] \in Digits
             \/ s[i] \in {"+", "-"} /\ i < j /\ \A k \in (i + 1)..j : s[k] \in Digits

\* C12: for a field of type number a value is empty iff it is neither a
\* number nor a string convertible to a finite number: every number and every
\* numeric string is non-empty, every other value is empty.
C12_NumberEmptiness ==
    (ret.op = "isFieldEmpty" /\ call.type = "number") =>
        (ret.empty <=> ~(\/ call.value.t = "number"
                         \/ call.value.t = "string" /\ ConvertsToFiniteNumber(call.value.s)))

\* C13: a required field whose declared type is not one of the five known
\* types is never reported in missingFields, whatever the metadata holds
\* under its name, the key being absent or the value null included.
C13_UnknownTypeNeverMissing ==
    (ret.op = "getMissingFields" /\ call.type \in UnknownTypes /\ call.required) =>
        ret.missing = <<>>


(***************************************************************************)
(* Placeholder templates.                                                  *)
(***************************************************************************)
HasBrace(s) == \E i \in 1..Len(s) : s[i] \in {"{", "}"}

\* the keys of the mapping under call that are written as name
NamedKeys(name) == {k \in TemplateKeys : KeyChars(k) = name /\ call.fm[k] # Undefined}

\* the placeholder is one the claim says is left as written
LeftLiteral(piece) ==
    IF piece.name = SCreated THEN ~call.file.present ELSE NamedKeys(piece.name) = {}

\* the string form of a field value: list items joined by ", "
PlainText(value) ==
    IF value.t = "array"
    THEN Join([i \in 1..Len(value.l) |-> StringOf(value.l[i])], <<",", " ">>)
    ELSE StringOf(value)

\* what a resolved placeholder of the pieces stands for
ResolvedText(piece) ==
    CASE piece = PieceType -> PlainText(call.fm["type"])
      [] piece = PieceAttendees -> PlainText(call.fm["attendees"])
      [] piece = PieceTypeStrip -> stripSymbols(PlainText(call.fm["type"]))
      [] piece = PieceDate -> formatDateValue(call.fm["date"], FormatYMD, call.tz)
      [] piece = PieceDateBrace -> formatDateValue(call.fm["date"], <<"{", "D", "D">>, call.tz)
      [] piece = PieceCreated -> formatDate(call.file.ctime, FormatYMD)
      [] piece = PieceCreatedDay -> formatDate(call.file.ctime, <<"D", "D">>)
      [] OTHER -> piece.raw

ExpectedText(piece) ==
    IF piece.kind = "text" \/ LeftLiteral(piece) THEN piece.raw ELSE ResolvedText(piece)

\* C14: processPlaceholders leaves a placeholder exactly as written when its
\* name is not a key of the mapping, and leaves {created} and
\* {created:modifier} as written when no file is given, even if the mapping
\* has a key created; every other placeholder of the template is resolved
\* and the text outside placeholders is unchanged.
C14_UnresolvedPlaceholdersStayLiteral ==
    ret.op = "processPlaceholders" =>
        ret.text = Join([i \in 1..Len(call.pieces) |-> ExpectedText(call.pieces[i])], <<>>)

\* {created} stays, with a key created in the mapping and no file, while
\* {type} next to it and an unknown {title} are resolved and left
C14_Witness ==
    /\ ret.op = "processPlaceholders"
    /\ call.pieces = <<PieceCreated, PieceType, PieceTitle>>
    /\ call.fm["created"] = Str(SX) /\ call.fm["type"] = Str(SBraced)
    /\ ~call.file.present
    /\ ret.text = PieceCreated.raw \o SBraced \o PieceTitle.raw

\* every placeholder of the template names a key the mapping holds
AllNamesPresent ==
    \A i \in 1..Len(call.pieces) :
        call.pieces[i].kind = "field" => NamedKeys(call.pieces[i].name) # {}

\* the braces of the template are those of its placeholders, one pair each
BracesDelimitOnly ==
    \A i \in 1..Len(call.pieces) :
        LET piece == call.pieces[i]
        IN  IF piece.kind = "text" THEN ~HasBrace(piece.raw)
            ELSE ~HasBrace(SubSeq(piece.raw, 2, Len(piece.raw) - 1))

\* C15 as stated: for every template whose placeholders all name keys present
\* in the field mapping, and every field value, the output of
\* processPlaceholders contains no '{' or '}'.
C15_NoBracesInOutput ==
    (ret.op = "processPlaceholders" /\ AllNamesPresent /\ BracesDelimitOnly) => ~HasBrace(ret.text)

\* no value of the mapping has a brace in its string form
ValuesBraceFree == \A k \in TemplateKeys : ~HasBrace(PlainText(call.fm[k]))

\* no placeholder is named created
NoCreatedPiece == \A i \in 1..Len(call.pieces) : call.pieces[i].name # SCreated

\* C15 amended: for every template whose braces only delimit placeholders
\* that name keys of the mapping other than created, and every mapping whose
\* values are free of braces, the output contains no '{' or '}'.
C15_NoBracesFromBraceFreeValues ==
    (ret.op = "processPlaceholders" /\ AllNamesPresent /\ BracesDelimitOnly
        /\ NoCreatedPiece /\ ValuesBraceFree) => ~HasBrace(ret.text)

\* a template of text and three placeholders resolved without a brace left
C15_Witness ==
    /\ ret.op = "processPlaceholders"
    /\ call.pieces = <<PieceAttendees, TextPiece(<<" ", "-", " ">>), PieceDate>>
    /\ AllNamesPresent /\ BracesDelimitOnly /\ NoCreatedPiece /\ ValuesBraceFree
    /\ call.tz = 0
    /\ ret.text = SAlice \o <<",", " ">> \o SBob \o <<" ", "-", " ">> \o SDate


(***************************************************************************)
(* The organizer.                                                          *)
(***************************************************************************)
\* the answers of organizeNote, called directly or by the command
IsOrganize(i) == outcome[i].op # "checkIfNoteIsOrganized" /\ outcome[i].offered

STitleMidnight ==
    SAlice \o <<",", " ">> \o SBob \o <<" ", "O", "3", " ", "-", " ">> \o SDate
        \o <<" ", "1", "2", ":", "0", "0", "a", "m">>

SDirAliceBob ==
    <<"A", "r", "e", "a", "s", "/", "W", "o", "r", "k", "/", "O", "3", "s", "/">>
        \o SAlice \o <<",", " ">> \o SBob

\* C16: for the default O3 ruleset and metadata {type: "O3", attendees:
\* ["Alice", "Bob"], date: "2024-01-15"}, the date read as midnight, the
\* destination computed by organizing has the title
\* "Alice, Bob O3 - 2024-01-15 12:00am" and the directory
\* "Areas/Work/O3s/Alice, Bob".
C16_DefaultRulesetDestination ==
    (/\ settings = <<DefaultRuleset>>
     /\ frontmatter = NoteOf(Str(SO3), Arr(<<Str(SAlice), Str(SBob)>>), Str(SDate))
     /\ call.op = "organizer" /\ call.tz = 0) =>
        \A i \in 1..Len(outcome) :
            IsOrganize(i) =>
                outcome[i].answer.fullNewPath = SDirAliceBob \o <<"/">> \o STitleMidnight \o SMd

\* the next answer of organizeNote after answer i, 0 if there is none
NextOrganize(i) ==
    IF \E j \in (i + 1)..Len(outcome) : IsOrganize(j)
    THEN CHOOSE j \in (i + 1)..Len(outcome) : IsOrganize(j) /\ \A m \in (i + 1)..(j - 1) : ~IsOrganize(m)
    ELSE 0

\* C17: right after organizeNote has moved a note, metadata and rulesets
\* unchanged, checkIfNoteIsOrganized returns true for the note and a second
\* organizeNote performs no rename, also when the first call resolved a file
\* name collision and when the resolved directory is empty.
C17_OrganizedAfterMove ==
    \A i \in 1..Len(outcome) :
        (IsOrganize(i) /\ outcome[i].answer.renamed) =>
            /\ (i < Len(outcome) /\ outcome[i + 1].op = "checkIfNoteIsOrganized")
                  => outcome[i + 1].result
            /\ NextOrganize(i) # 0 => ~outcome[NextOrganize(i)].answer.renamed


\* what getAbstractFileByPath finds when handleCollisions of answer i runs
ExistingAt(i) ==
    outcome[i].before.files \cup outcome[i].before.folders
        \cup {outcome[i].answer.created[j] : j \in 1..Len(outcome[i].answer.created)}

\* the path with " k" put before its .md extension
WithSuffix(path, k) == SubSeq(path, 1, Len(path) - 3) \o <<" ">> \o NatToString(k) \o SMd

\* handleCollisions of answer i has returned
Collided(i) == IsOrganize(i) /\ outcome[i].answer.finalPath # <<>>

\* C18: handleCollisions returns the desired path unchanged when nothing
\* exists there; when the desired path and its variants " 1" .. " k" all
\* exist and " k+1" does not, it returns the desired name with " k+1" before
\* .md in the same directory, the number never appended to a numbered name;
\* the loop ends and the path returned does not exist on return.
C18_CollisionSuffix ==
    \A i \in 1..Len(outcome) :
        Collided(i) =>
            LET desired == outcome[i].answer.fullNewPath
                final == outcome[i].answer.finalPath
            IN  /\ desired \notin ExistingAt(i) => final = desired
                /\ \A k \in 0..(MaxVariants + MaxOrganizes) :
                      (/\ desired \in ExistingAt(i)
                       /\ \A m \in 1..k : WithSuffix(desired, m) \in ExistingAt(i)
                       /\ WithSuffix(desired, k + 1) \notin ExistingAt(i))
                          => final = WithSuffix(desired, k + 1)
                /\ final \notin ExistingAt(i)

\* Notes/n.md, "n 1" and "n 2" exist, and the note is moved to "n 3"
C18_Witness ==
    \E i \in 1..Len(outcome) :
        /\ Collided(i)
        /\ {NotesVariant(0), NotesVariant(1), NotesVariant(2)} \subseteq ExistingAt(i)
        /\ outcome[i].answer.fullNewPath = NotesVariant(0)
        /\ outcome[i].answer.finalPath = NotesVariant(3)
        /\ outcome[i].answer.renamed


\* the directory of a full path, and the paths of its ancestors and itself
DirectoryOf(path) == SubSeq(path, 1, LastPosition(path, "/") - 1)

AncestorsOf(dir) ==
    LET NonEmpty(segment) == Len(segment) > 0
        segments == SelectSeq(Split(dir, "/"), NonEmpty)
    IN  {Join(SubSeq(segments, 1, j), <<"/">>) : j \in 1..Len(segments)}

IsPrefix(p, q) == Len(p) <= Len(q) /\ SubSeq(q, 1, Len(p)) = p

\* this step is a call of organizeNote
OrganizeStep ==
    /\ Len(outcome') = Len(outcome) + 1
    /\ outcome'[Len(outcome')].op # "checkIfNoteIsOrganized"
    /\ outcome'[Len(outcome')].offered

\* C19: organizeNote creates every missing ancestor folder of the target
\* directory, from the root to the leaf, before it renames the note; if a
\* segment of the target directory exists and is not a folder, the call fails
\* with no folder created, no rename, no file overwritten and the note at its
\* original path.
C19_FoldersBeforeRename ==
    [][OrganizeStep =>
          LET answer == outcome'[Len(outcome')].answer
              ops == SubSeq(vaultLog', Len(vaultLog) + 1, Len(vaultLog'))
              ancestors == AncestorsOf(DirectoryOf(answer.fullNewPath))
          IN  /\ answer.renamed =>
                    /\ ops[Len(ops)].op = "rename"
                    /\ \A i \in 1..(Len(ops) - 1) : ops[i].op = "createFolder"
                    /\ \A p \in ancestors :
                          p \in folders \/ \E i \in 1..(Len(ops) - 1) : ops[i].path = p
                    /\ \A i, j \in 1..(Len(ops) - 1) :
                          i < j => IsPrefix(ops[i].path \o <<"/">>, ops[j].path)
                    /\ ancestors \subseteq folders'
                    /\ files' \ {notePath'} = files \ {notePath}
              /\ (answer.fullNewPath # <<>> /\ \E p \in ancestors : p \in files) =>
                    /\ ~answer.result
                    /\ ops = <<>>
                    /\ UNCHANGED <<notePath, folders, files>>]_vars

\* the four folders of the O3 destination are created in an empty vault,
\* Areas first, and the note is renamed after them
C19_Witness ==
    /\ Len(vaultLog) = 5
    /\ vaultLog[1] = [op |-> "createFolder", path |-> SAreas, to |-> <<>>]
    /\ vaultLog[2].path = SWork /\ vaultLog[3].path = SO3s
    /\ vaultLog[4] = [op |-> "createFolder", path |-> SAliceBob, to |-> <<>>]
    /\ vaultLog[5].op = "rename" /\ vaultLog[5].path = SNote
    /\ notePath = vaultLog[5].to

\* the metadata matches a ruleset with valid trigger fields and has no
\* missing required field
CompleteMatch ==
    /\ frontmatter.kind = "object"
    /\ \E i \in 1..Len(settings) : Qualifies(i)
    /\ EmptyTriggerNames(settings[FirstQualifying]) = <<>>
    /\ RequiredEmptyNames(settings[FirstQualifying]) = <<>>

\* C20: the organize command is offered, and organizeNote creates folders or
\* renames, only when the note's metadata matches a ruleset with valid
\* trigger fields and has no missing required field; in every other state
\* organizeNote returns false with no folder created and no rename.
C20_OrganizeOnlyWhenComplete ==
    /\ vaultLog # <<>> => CompleteMatch
    /\ \A i \in 1..Len(outcome) :
          outcome[i].op # "checkIfNoteIsOrganized" =>
              /\ outcome[i].op = "organize-note" => (outcome[i].offered <=> CompleteMatch)
              /\ ~CompleteMatch =>
                    /\ ~outcome[i].answer.result
                    /\ outcome[i].answer.created = <<>>
                    /\ ~outcome[i].answer.renamed
                    /\ outcome[i].answer.path = outcome[i].before.path

\* a note that lacks a required field: the command is not offered, and
\* organizeNote called by the alert's button returns false and does nothing
C20_Witness ==
    /\ Len(outcome) = 2
    /\ outcome[1].op = "organize-note" /\ ~outcome[1].offered
    /\ outcome[2].op = "organizeNote" /\ ~outcome[2].answer.result
    /\ frontmatter.kind = "object"
    /\ \E i \in 1..Len(settings) : Qualifies(i)
    /\ EmptyTriggerNames(settings[FirstQualifying]) = <<>>
    /\ RequiredEmptyNames(settings[FirstQualifying]) # <<>>
    /\ vaultLog = <<>> /\ notePath = SNote


(***************************************************************************)
(* Placeholder markers: the scan.                                          *)
(***************************************************************************)
Scanned == ret.op = "findAllMarkers"

\* a run of k word characters
WordRunOf(k) == [i \in 1..k |-> "a"]

\* the line "<[" u "<[" v "]>" w "]>" with words u, v and w
NestedLine(u, v, w) == SOpen \o u \o SOpen \o v \o SClose \o w \o SClose

\* the marker record of the occurrence of "<[" v "]>" at offset from
MarkerAt(from, v) ==
    [from |-> from, to |-> from + Len(v) + 4, content |-> v, fullText |-> SOpen \o v \o SClose]

\* C21: scanning a line that holds one marker nested inside another's
\* delimiters, "<[outer_<[inner]>_marker]>", returns exactly one marker, the
\* inner one, with the offsets and the content of "<[inner]>".
C21_NestedMarkerIsReturned ==
    \A i \in 1..MaxTokens, j \in 1..MaxTokens, k \in 1..MaxTokens :
        (/\ Scanned
         /\ call.code = {}
         /\ call.doc = NestedLine(WordRunOf(i), WordRunOf(j), WordRunOf(k)))
            => ret.markers = <<MarkerAt(2 + i, WordRunOf(j))>>

\* the well-formed marker occurrences of the document, as ranges
Occurrences(doc) ==
    {[from |-> i, to |-> i + MatchLength(doc, i)] :
        i \in {k \in 0..(Len(doc) - 1) : MatchLength(doc, k) > 0}}

\* the offset lies inside a code node of the syntax tree
InCodeRegion(view, offset) == \E node \in view.code : node.from <= offset /\ offset < node.to

\* the "<[" at offset p of the line of the occurrence is still open at its start
OpenBefore(doc, m, p) ==
    /\ LineAt(doc, m.from).from <= p /\ p < m.from
    /\ StartsWithAt(doc, SOpen, p)
    /\ \A q \in (p + 2)..(m.from - 2) : ~StartsWithAt(doc, SClose, q)

\* the occurrence lies between an open "<[" and a later "]>" of its line
Enclosed(doc, m) ==
    /\ \E p \in 0..m.from : OpenBefore(doc, m, p)
    /\ \E q \in m.to..LineAt(doc, m.from).to : q + 2 <= LineAt(doc, m.from).to
                                                  /\ StartsWithAt(doc, SClose, q)

RangesOf(markers) == {[from |-> markers[i].from, to |-> markers[i].to] : i \in 1..Len(markers)}

\* C22: findAllMarkers returns every well-formed marker occurrence that lies
\* outside code regions and is not enclosed by another marker's delimiters,
\* each of several sequential markers of a line included; the result is in
\* strictly ascending start order, its ranges do not overlap, and empty or
\* unterminated delimiter pairs are absent from it.
C22_EveryOpenMarkerIsReturned ==
    Scanned =>
        /\ \A m \in Occurrences(call.doc) :
               (~InCodeRegion(call, m.from) /\ ~Enclosed(call.doc, m))
                   => m \in RangesOf(ret.markers)
        /\ \A i \in 1..(Len(ret.markers) - 1) : ret.markers[i].to <= ret.markers[i + 1].from
        /\ \A i \in 1..Len(ret.markers) :
               /\ ret.markers[i].from < ret.markers[i].to
               /\ [from |-> ret.markers[i].from, to |-> ret.markers[i].to]
                      \in Occurrences(call.doc)
               /\ ret.markers[i].content # <<>>

\* no "<[" of its line precedes the occurrence
FirstOfLine(doc, m) ==
    \A p \in LineAt(doc, m.from).from..(m.from - 1) : ~StartsWithAt(doc, SOpen, p)

\* C23: a marker is excluded from the scan result iff its own starting offset
\* lies inside a fenced or inline code region: a marker in an inline code span
\* in the middle of an ordinary line is excluded, and a marker outside every
\* code region is returned even when its line begins inside one.
C23_ExcludedIffStartInCode ==
    Scanned =>
        \A m \in Occurrences(call.doc) :
            FirstOfLine(call.doc, m)
                => (m \notin RangesOf(ret.markers) <=> InCodeRegion(call, m.from))


(***************************************************************************)
(* Placeholder markers: navigation.                                        *)
(***************************************************************************)
RangeOfMarker(m) == [from |-> m.from, to |-> m.to]

\* the marker of the list that the command is to select from selection
NextMarker(markers, selection) ==
    IF \E i \in 1..Len(markers) : markers[i].from > selection.to
    THEN markers[CHOOSE i \in 1..Len(markers) :
                     /\ markers[i].from > selection.to
                     /\ \A j \in 1..(i - 1) : ~(markers[j].from > selection.to)]
    ELSE markers[1]

PreviousMarker(markers, selection) ==
    IF \E i \in 1..Len(markers) : markers[i].to < selection.from
    THEN markers[CHOOSE i \in 1..Len(markers) :
                     /\ markers[i].to < selection.from
                     /\ \A j \in (i + 1)..Len(markers) : ~(markers[j].to < selection.from)]
    ELSE markers[Len(markers)]

\* C24: navigateToMarker('next') selects the first marker whose start offset
\* is strictly greater than the end of the current selection, or the first
\* marker overall if there is none; 'prev' selects the last marker whose end
\* offset is strictly less than the start of the selection, or the last marker
\* overall (markers [5,10) and [20,25): next from [30,30) selects [5,10), prev
\* from [0,0) selects [20,25)).  The new selection spans exactly the marker,
\* and the call fails, leaving the selection as it is, only when there are no
\* markers.
C24_NavigationSelectsWithWraparound ==
    call.op = "navigate" =>
        \A k \in 1..Len(ret.log) :
            LET e == ret.log[k]
            IN  /\ e.success <=> e.markers # <<>>
                /\ ~e.success => e.selection = e.before
                /\ (e.success /\ e.direction = "next")
                       => e.selection = RangeOfMarker(NextMarker(e.markers, e.before))
                /\ (e.success /\ e.direction = "prev")
                       => e.selection = RangeOfMarker(PreviousMarker(e.markers, e.before))
                /\ (call.doc = SNavExample /\ e.before = [from |-> 30, to |-> 30]
                        /\ e.direction = "next")
                       => e.selection = [from |-> 5, to |-> 10]
                /\ (call.doc = SNavExample /\ e.before = [from |-> 0, to |-> 0]
                        /\ e.direction = "prev")
                       => e.selection = [from |-> 20, to |-> 25]

\* next from [30,30) has wrapped to [5,10), and prev from there to [20,25)
C24_Witness ==
    /\ call.op = "navigate"
    /\ call.doc = SNavExample
    /\ Len(ret.log) = 2
    /\ ret.log[1].direction = "next"
    /\ ret.log[1].before = [from |-> 30, to |-> 30]
    /\ ret.log[1].selection = [from |-> 5, to |-> 10]
    /\ ret.log[2].direction = "prev"
    /\ ret.log[2].selection = [from |-> 20, to |-> 25]

\* the occurrence that follows m in document order, the first one after the last
CyclicNext(all, m) ==
    IF \E o \in all : o.from > m.from
    THEN CHOOSE o \in all : o.from > m.from /\ \A p \in all : p.from > m.from => o.from <= p.from
    ELSE CHOOSE o \in all : \A p \in all : o.from <= p.from

CyclicPrevious(all, m) ==
    IF \E o \in all : o.from < m.from
    THEN CHOOSE o \in all : o.from < m.from /\ \A p \in all : p.from < m.from => o.from >= p.from
    ELSE CHOOSE o \in all : \A p \in all : o.from >= p.from

\* the first n commands were all of the one direction
RunOf(direction, n) ==
    /\ Len(ret.log) >= n
    /\ \A k \in 1..n : ret.log[k].direction = direction

\* C27: with n >= 1 ordered, non-overlapping markers and any starting
\* selection, n consecutive 'next' commands select n distinct markers, every
\* marker, in ascending order with wraparound and none skipped, also when two
\* markers are directly adjacent; symmetrically for 'prev'.
C27_ConsecutiveCommandsVisitEveryMarker ==
    LET all == Occurrences(call.doc)
        n == Cardinality(all)
        Visited(k) == ret.log[k].selection
    IN  (call.op = "navigate" /\ n >= 1) =>
            /\ RunOf("next", n) =>
                   /\ {Visited(k) : k \in 1..n} = all
                   /\ \A k \in 1..(n - 1) : Visited(k + 1) = CyclicNext(all, Visited(k))
            /\ RunOf("prev", n) =>
                   /\ {Visited(k) : k \in 1..n} = all
                   /\ \A k \in 1..(n - 1) : Visited(k + 1) = CyclicPrevious(all, Visited(k))


\* the ruleset that organizeNote works with in this state
MatchedRuleset == settings[evaluateMetadata(frontmatter, settings).ruleset]

\* C26: organizing a note never changes its title when the matched ruleset's
\* autoTitleMode is 'never' ("Do not change"), and never changes its folder
\* when the ruleset's enableAutoMove is false, even when the ruleset has a
\* title template and a path template.
C26_AutoTitleAndAutoMoveRespected ==
    \A i \in 1..Len(outcome) :
        (IsOrganize(i) /\ outcome[i].answer.renamed) =>
            /\ MatchedRuleset.autoTitleMode = "never"
                   => FileBasename(outcome[i].answer.path) = FileBasename(outcome[i].before.path)
            /\ MatchedRuleset.enableAutoMove = FALSE
                   => DirectoryOf(NormalizePath(outcome[i].answer.path))
                          = DirectoryOf(NormalizePath(outcome[i].before.path))


(***************************************************************************)
(* The sanitizers.                                                         *)
(***************************************************************************)
\* no white space at either end and no two white-space characters in a row
TightWhiteSpace(s) ==
    /\ s # <<>> => (s[1] \notin WhiteSpace /\ s[Len(s)] \notin WhiteSpace)
    /\ \A i \in 1..(Len(s) - 1) : ~(s[i] \in WhiteSpace /\ s[i + 1] \in WhiteSpace)

\* the segments between the '/' of s, read off the text
SegmentsOf(s) ==
    LET cuts == {0, Len(s) + 1} \cup {i \in 1..Len(s) : s[i] = "/"}
        Adjacent(a, b) == a < b /\ \A d \in cuts : ~(a < d /\ d < b)
    IN  {SubSeq(s, pair[1] + 1, pair[2] - 1) :
            pair \in {p \in cuts \X cuts : Adjacent(p[1], p[2])}}

\* C28: the output of sanitizeForFilename holds none of < > : " / \ | ? *,
\* has no white space at its ends and no run of two white-space characters,
\* and sanitizing it again changes nothing; the output of sanitizeForPath has
\* no empty segment, each of its segments is a fixed point of
\* sanitizeForFilename, and sanitizeForPath is idempotent.
C28_SanitizersNormalize ==
    /\ ret.op = "sanitizeForFilename" =>
           /\ \A i \in 1..Len(ret.once) : ret.once[i] \notin ForbiddenChars
           /\ TightWhiteSpace(ret.once)
           /\ ret.twice = ret.once
    /\ ret.op = "sanitizeForPath" =>
           /\ ret.once # <<>> => <<>> \notin SegmentsOf(ret.once)
           /\ \A segment \in SegmentsOf(ret.once) : sanitizeForFilename(segment) = segment
           /\ ret.twice = ret.once

\* the path "/a /:" has lost its empty segments and its white space
C28_Witness ==
    /\ ret.op = "sanitizeForPath"
    /\ call.text = <<"/", "a", " ", "/", ":">>
    /\ ret.once = <<"a">>
    /\ ret.twice = <<"a">>


\* C29: while enableWarnings is false no alert is displayed: after
\* updateSettings(false) and any later sequence of evaluateFile calls on
\* matching, non-matching, incomplete, complete or invalid frontmatter, the
\* enforcer's set of shown alerts stays empty.
C29_NoAlertWhileWarningsOff == ~enableWarnings => alert = NoAlert

\* extractRegexMatches run on its own over a result list
RECURSIVE ExtractAll(_, _, _)
ExtractAll(regexMatches, results, i) ==
    IF i > Len(results)
    THEN regexMatches
    ELSE ExtractAll(PushMatches(regexMatches, CheckboxLines(results[i]), 1), results, i + 1)

\* what an undisturbed search for the note leaves in the sidebar
ResultsOfNote(note) ==
    IF note.frontmatter /\ note.matches /\ needsSearch(note) THEN LimitResults(note) ELSE <<>>

\* C30: once no search is in flight any more, the searchResults and the
\* regexMatches the sidebar holds, and what it rendered last, are those of the
\* search for the note that is current: a search started for a note that has
\* been superseded leaves nothing behind when it completes late.
C30_LateSearchNeverOverwrites ==
    (ret.op = "sidebar" /\ ret.reading = <<>> /\ ret.currentFile # NoActiveFile) =>
        /\ ret.searchResults = ResultsOfNote(call.vault[ret.currentFile])
        /\ ret.regexMatches = ExtractAll(<<>>, ResultsOfNote(call.vault[ret.currentFile]), 1)
        /\ ret.rendered = render(call.vault, ret)

====
